---------------------------- MODULE Spec2Model ----------------------------
(***************************************************************************)
(* Verification model of the DocuMind retrieval-augmented answering core:  *)
(*   - RedisCacheManager (backend/src/redis_cache.py): key-value cache,    *)
(*     query memoisation, sessions and the rate limiter;                   *)
(*   - LLMFallbackHandler.query_text (backend/src/llm_fallback_handler.py);*)
(*   - ChromaVectorStore / SimpleVectorStore search and SmartRetriever;    *)
(*   - RAGSystem.query (backend/src/rag_system.py).                        *)
(* Time is counted in whole seconds; a Redis TTL is the number of seconds  *)
(* a key has left to live.                                                 *)
(***************************************************************************)
EXTENDS Integers, Sequences, FiniteSets, TLC

VARIABLES
    mode,         \* RedisCacheManager.mode: "upstash", "local" or "disabled"
    maxReq,       \* max_requests handed to check_rate_limit
    window,       \* window handed to check_rate_limit (seconds)
    faultBudget,  \* how many backend commands may raise in this run
    faults,       \* how many backend commands have raised so far
    now,          \* seconds elapsed
    rate,         \* the "rate:<identifier>" keys of the backend: counter and TTL
    kv,           \* the "query:" and "session:" keys of the backend
    pc,           \* per request: where it stands inside check_rate_limit
    cnt,          \* per request: the local variable `count`
    rid,          \* per request: the identifier it was called with
    log,          \* results returned by check_rate_limit, in order of return
    lastOp,       \* the last cache call (set/get/delete) and what it returned
    shadow,       \* per key: what was last stored and the second its TTL ends
    coll,         \* the vector store's collection: the stored chunks, in order
    storeKind,    \* which vector store class backs the retriever
    lastSearch,   \* the last store search: its arguments and its result
    lastRetr,     \* the last SmartRetriever.retrieve call and its outcome
    lastQuery,    \* the last RAGSystem.query call and its outcome
    providers,    \* LLMFallbackHandler.providers: what each provider's call does
    llm,          \* the query_text call in progress, then its result
    pdf,          \* the extract_content call: its pages, its workers, its result
    tbl,          \* the last extract_tables call: what the page holds, its result
    det,          \* the last _detect_query_type call: the query, its result
    conv,         \* the conversation buffer of one tenant and its /ask requests
    lazy,         \* one LazyLoader: its fields, its lock, the get calls under way
    changedAt     \* per tenant: the second its documents last changed, or -1

cacheVars == <<mode, maxReq, window, faultBudget, faults, now, rate, kv,
               pc, cnt, rid, log, lastOp, shadow>>
storeVars == <<coll, storeKind, lastSearch, lastRetr>>
llmVars == <<providers, llm>>
docVars == <<pdf, tbl, det, conv, lazy, changedAt>>
vars == <<cacheVars, storeVars, lastQuery, llmVars, docVars>>

(***************************************************************************)
(* Bounds of the model                                                     *)
(***************************************************************************)
MaxN == 2          \* max_requests ranges over 1..MaxN
MaxW == 2          \* window and TTLs range over 1..MaxW seconds
MaxTime == 3       \* seconds of run time explored
MaxCalls == 4      \* check_rate_limit calls per run
MaxFaults == 1     \* backend commands that may raise per run
MaxProviders == 3  \* providers with a configured API key
MaxChunks == 3     \* chunks the collection holds
MaxPages == 5      \* pages of a document
MaxTables == 2     \* tables one extraction method reports for a page
MaxDistance == 40  \* largest distance, in twentieths (cosine distance is in [0, 2])
MaxFetched == 12   \* chunks of a long document
MaxWords == 3      \* words and phrases of a typed query
TOP_K_RESULTS == 5 \* config.TOP_K_RESULTS
\* config.QUERY_CACHE_TTL, on the model's clock
QUERY_CACHE_TTL == MaxW

Procs == {1, 2}     \* concurrent requests (gevent greenlets)
Idents == {"u1"}
None == "<None>"
NoTTL == -1        \* Redis TTL reply for a key without expiry

(***************************************************************************)
(* The backend (Redis) commands the cache manager issues                   *)
(***************************************************************************)
\* A rate key: n = 0 means the key does not exist.
NoRate == [n |-> 0, ttl |-> 0]

\* GET on a counter key, then `int(current) if current else 0`.
RedisGetCount(r, id) == r[id].n

\* INCR: creates the key at 1 without expiry, or adds one and keeps the TTL.
RedisIncr(r, id) ==
    IF r[id].n = 0
    THEN [r EXCEPT ![id] = [n |-> 1, ttl |-> NoTTL]]
    ELSE [r EXCEPT ![id].n = @ + 1]

\* EXPIRE: (re)sets the TTL of an existing key; no effect on a missing key.
RedisExpire(r, id, w) ==
    IF r[id].n = 0 THEN r ELSE [r EXCEPT ![id].ttl = w]

\* One second passes for one key with fields (.., ttl): it dies when its TTL
\* runs out, a key without expiry stays.
AgeTTL(e, dead) ==
    IF e.ttl = NoTTL \/ e.ttl = 0 THEN e
    ELSE IF e.ttl = 1 THEN dead
    ELSE [e EXCEPT !.ttl = @ - 1]

(***************************************************************************)
(* RedisCacheManager.check_rate_limit, one backend command per step        *)
(***************************************************************************)
\* self.enabled: a backend answered the constructor's ping (lines 50-88).
Enabled == mode # "disabled"

AllIdle == \A q \in Procs : pc[q] = "idle"
Active == {q \in Procs : pc[q] # "idle"}

\* A backend command may raise while the run's fault budget lasts.
FaultChoice == IF faults < faultBudget THEN {FALSE, TRUE} ELSE {FALSE}

\* `if count >= max_requests` (line 402).
LimitReachedOffByOne(count, max) == count > max
LimitReached(count, max) == count >= max

\* `"remaining": max_requests - count - 1` (line 426).
Remaining(count, max) == max - count - 1

\* The call returns: its result is appended to the log of results and its
\* local variables are gone.
Finish(p, allowed, remaining, failedOpen) ==
    /\ log' = Append(log, [t |-> now, allowed |-> allowed,
                           remaining |-> remaining, failopen |-> failedOpen])
    /\ pc' = [pc EXCEPT ![p] = "idle"]
    /\ cnt' = [cnt EXCEPT ![p] = 0]

\* `except Exception`: allow on error (lines 430-433).
FailOpen(p) ==
    /\ faults' = faults + 1
    /\ Finish(p, TRUE, maxReq, TRUE)

\* Lines 391-402: the disabled shortcut, else GET and the comparison.
RL_Get(p) ==
    /\ pc[p] = "idle"
    /\ Len(log) + Cardinality(Active) < MaxCalls
    /\ \E id \in Idents, f \in FaultChoice :
         /\ rid' = [rid EXCEPT ![p] = id]
         /\ IF ~Enabled
            THEN /\ ~f
                 /\ Finish(p, TRUE, maxReq, FALSE)
                 /\ UNCHANGED faults
            ELSE IF f
            THEN FailOpen(p)
            ELSE LET count == RedisGetCount(rate, id) IN
                 /\ cnt' = [cnt EXCEPT ![p] = count]
                 /\ pc' = [pc EXCEPT ![p] =
                             IF LimitReached(count, maxReq) THEN "ttl" ELSE "incr"]
                 /\ UNCHANGED <<log, faults>>
    /\ UNCHANGED <<mode, maxReq, window, faultBudget, now, rate, kv, lastOp,
                   shadow, storeVars, lastQuery, llmVars, docVars>>

\* Lines 403-409: TTL for reset_at, then the rejection.
RL_Ttl(p) ==
    /\ pc[p] = "ttl"
    /\ \E f \in FaultChoice :
         IF f THEN FailOpen(p)
         ELSE Finish(p, FALSE, 0, FALSE) /\ UNCHANGED faults
    /\ UNCHANGED <<mode, maxReq, window, faultBudget, now, rate, kv, rid,
                   lastOp, shadow, storeVars, lastQuery, llmVars, docVars>>

\* Lines 413-422. Upstash: INCR alone (EXPIRE is the next command), and
\* count = new_count - 1. Local: INCR and EXPIRE in one MULTI/EXEC pipeline.
RL_Incr(p) ==
    /\ pc[p] = "incr"
    /\ \E f \in FaultChoice :
         IF f THEN FailOpen(p) /\ UNCHANGED rate
         ELSE IF mode = "upstash"
         THEN /\ rate' = RedisIncr(rate, rid[p])
              /\ cnt' = [cnt EXCEPT ![p] = rate'[rid[p]].n - 1]
              /\ pc' = [pc EXCEPT ![p] = "expire"]
              /\ UNCHANGED <<log, faults>>
         ELSE /\ rate' = RedisExpire(RedisIncr(rate, rid[p]), rid[p], window)
              /\ Finish(p, TRUE, Remaining(cnt[p], maxReq), FALSE)
              /\ UNCHANGED faults
    /\ UNCHANGED <<mode, maxReq, window, faultBudget, now, kv, rid, lastOp,
                   shadow, storeVars, lastQuery, llmVars, docVars>>

\* Line 415 (Upstash only): EXPIRE, then the acceptance (lines 424-428).
RL_Expire(p) ==
    /\ pc[p] = "expire"
    /\ \E f \in FaultChoice :
         IF f THEN FailOpen(p) /\ UNCHANGED rate
         ELSE /\ rate' = RedisExpire(rate, rid[p], window)
              /\ Finish(p, TRUE, Remaining(cnt[p], maxReq), FALSE)
              /\ UNCHANGED faults
    /\ UNCHANGED <<mode, maxReq, window, faultBudget, now, kv, rid,
                   lastOp, shadow, storeVars, lastQuery, llmVars, docVars>>

(***************************************************************************)
(* Python values and their JSON text                                       *)
(***************************************************************************)
PyList(s) == [t |-> "list", items |-> s]
PyTuple(s) == [t |-> "tuple", items |-> s]

\* A response dict as RAGSystem.query builds it (llm_handler.py 64-70, then
\* rag_system.py 243-248); confidence is kept in hundredths.
Response(answer, used, conf, types, qtype) ==
    [answer |-> answer, sources_used |-> used, confidence |-> conf,
     context_types |-> PyList(types), query_type |-> qtype, cached |-> FALSE]

NoDict == [answer |-> None, sources_used |-> 0, confidence |-> 0,
           context_types |-> PyList(<<>>), query_type |-> None, cached |-> FALSE]

\* json.dumps: a JSON array keeps the items of a list or of a tuple, not
\* which of the two it was.
JsonDumps(d) ==
    [answer |-> d.answer, sources_used |-> d.sources_used,
     confidence |-> d.confidence, array |-> d.context_types.items,
     query_type |-> d.query_type, cached |-> d.cached]

\* json.loads: every JSON array becomes a list.
JsonLoads(s) ==
    [answer |-> s.answer, sources_used |-> s.sources_used,
     confidence |-> s.confidence, context_types |-> PyList(s.array),
     query_type |-> s.query_type, cached |-> s.cached]

NoText == JsonDumps(NoDict)
NoEntry == [live |-> FALSE, val |-> NoText, ttl |-> 0]

(***************************************************************************)
(* Cache keys                                                              *)
(***************************************************************************)
Users == {"A", "B"}
Docs == {"d1", "d2"}

\* _generate_cache_key(prefix, {question, document_name, suffix}): the digest
\* of the sorted JSON of the three fields; distinct triples give distinct
\* JSON texts, and the 64-bit digest is taken to keep them apart.
CacheKey(prefix, question, document_name, suffix) ==
    <<prefix, question, document_name, suffix>>

\* f"session:{session_id}"
SessionKey(session_id) == <<"session", session_id, None, "">>

\* `cache_key_suffix = f"_{user_id}" if user_id else ""` (rag_system.py 208)
KeySuffixShared(user_id) == ""
KeySuffix(user_id) == IF user_id = None THEN "" ELSE "_" \o user_id

Questions == {"hello", "what is x"}
Sessions == {"s1"}
QueryKeys == {CacheKey("query", q, d, KeySuffix(u)) :
                 q \in Questions, d \in Docs \cup {None}, u \in Users \cup {None}}
AllKeys == QueryKeys \cup {SessionKey(sid) : sid \in Sessions}

\* The part of the key space the cache runs exercise.
KVQuestions == {"hello"}
KVDocs == {None}
KVUsers == {None}
Dicts == {Response("a1", 1, 80, <<"text">>, "general"),
          Response("a2", 2, 96, <<"table", "text">>, "table")}

(***************************************************************************)
(* Query-result cache and sessions: one backend command per call           *)
(***************************************************************************)
\* SETEX key ttl value; Redis rejects a TTL below one second.
SetexRaises(ttl) == ttl < 1
RedisSetex(store, key, ttl, text) ==
    [store EXCEPT ![key] = [live |-> TRUE, val |-> text, ttl |-> ttl]]

RedisDel(store, key) == [store EXCEPT ![key] = NoEntry]

\* `cached = client.get(key)`, `if cached:` and the decoding (lines 184-192).
GetDecodedNoDecode(store, key) == [hit |-> store[key].live, val |-> NoDict]
GetDecoded(store, key) ==
    IF store[key].live
    THEN [hit |-> TRUE, val |-> JsonLoads(store[key].val)]
    ELSE [hit |-> FALSE, val |-> NoDict]

Op(name, key, ok, hit, val, faulted) ==
    [op |-> name, key |-> key, ok |-> ok, hit |-> hit, val |-> val,
     faulted |-> faulted]

\* What the calls that reported success stored under a key, and the second
\* at which its TTL ends.
Stored(val, ttl) == [set |-> TRUE, val |-> val, exp |-> now + ttl]
NotStored == [set |-> FALSE, val |-> NoDict, exp |-> 0]

NoOp == [op |-> "none", key |-> SessionKey("s1"), ok |-> FALSE, hit |-> FALSE,
         val |-> NoDict, faulted |-> FALSE]

\* The body shared by cache_query_result (134-158) and create_session (212-230).
SetCall(name, key, value, ttl) ==
    /\ \E f \in FaultChoice :
         IF ~Enabled
         THEN /\ ~f
              /\ lastOp' = Op(name, key, FALSE, FALSE, NoDict, FALSE)
              /\ UNCHANGED <<kv, shadow, faults>>
         ELSE IF f \/ SetexRaises(ttl)
         THEN /\ lastOp' = Op(name, key, FALSE, FALSE, NoDict, f)
              /\ faults' = IF f THEN faults + 1 ELSE faults
              /\ UNCHANGED <<kv, shadow>>
         ELSE /\ kv' = RedisSetex(kv, key, ttl, JsonDumps(value))
              /\ shadow' = [shadow EXCEPT ![key] = Stored(value, ttl)]
              /\ lastOp' = Op(name, key, TRUE, FALSE, NoDict, FALSE)
              /\ UNCHANGED faults
    /\ UNCHANGED <<mode, maxReq, window, faultBudget, now, rate, pc, cnt, rid, log,
                   storeVars, lastQuery, llmVars, docVars>>

\* The body shared by get_cached_query_result (172-196) and get_session (242-259).
GetCall(name, key) ==
    /\ \E f \in FaultChoice :
         IF ~Enabled
         THEN /\ ~f
              /\ lastOp' = Op(name, key, FALSE, FALSE, NoDict, FALSE)
              /\ UNCHANGED faults
         ELSE IF f
         THEN /\ lastOp' = Op(name, key, FALSE, FALSE, NoDict, TRUE)
              /\ faults' = faults + 1
         ELSE LET got == GetDecoded(kv, key) IN
              /\ lastOp' = Op(name, key, got.hit, got.hit, got.val, FALSE)
              /\ UNCHANGED faults
    /\ UNCHANGED <<mode, maxReq, window, faultBudget, now, rate, kv, pc, cnt, rid,
                   log, shadow, storeVars, lastQuery, llmVars, docVars>>

cache_query_result ==
    \E q \in KVQuestions, d \in KVDocs, u \in KVUsers, v \in Dicts, ttl \in 0..MaxW :
        SetCall("set_query", CacheKey("query", q, d, KeySuffix(u)), v, ttl)

get_cached_query_result ==
    \E q \in KVQuestions, d \in KVDocs, u \in KVUsers :
        GetCall("get_query", CacheKey("query", q, d, KeySuffix(u)))

\* The entry a request of tenant u stores for its answer (rag_system.py
\* 248-251): cache_query_result under the tenant's suffix, with the
\* configured TTL. The answer text names the tenant it was computed for.
TenantResponse(u) == Response("answer for " \o u, 1, 80, <<"text">>, "general")
CacheAsTenant ==
    \E q \in KVQuestions, d \in KVDocs, u \in Users :
        SetCall("set_query", CacheKey("query", q, d, KeySuffix(u)),
                TenantResponse(u), QUERY_CACHE_TTL)

create_session ==
    \E sid \in Sessions, v \in Dicts, ttl \in 0..MaxW :
        SetCall("set_session", SessionKey(sid), v, ttl)

get_session ==
    \E sid \in Sessions : GetCall("get_session", SessionKey(sid))

\* delete_session (271-283): DEL, True unless the command raises.
delete_session ==
    /\ \E sid \in Sessions, f \in FaultChoice :
         LET key == SessionKey(sid) IN
         IF ~Enabled
         THEN /\ ~f
              /\ lastOp' = Op("del_session", key, FALSE, FALSE, NoDict, FALSE)
              /\ UNCHANGED <<kv, shadow, faults>>
         ELSE IF f
         THEN /\ lastOp' = Op("del_session", key, FALSE, FALSE, NoDict, TRUE)
              /\ faults' = faults + 1
              /\ UNCHANGED <<kv, shadow>>
         ELSE /\ kv' = RedisDel(kv, key)
              /\ shadow' = [shadow EXCEPT ![key] = NotStored]
              /\ lastOp' = Op("del_session", key, TRUE, FALSE, NoDict, FALSE)
              /\ UNCHANGED faults
    /\ UNCHANGED <<mode, maxReq, window, faultBudget, now, rate, pc, cnt, rid, log,
                   storeVars, lastQuery, llmVars, docVars>>

\* One second passes: every TTL runs down, keys at the end of theirs vanish.
\* The record of the last cache call describes the current second only.
Tick ==
    /\ now < MaxTime
    /\ now' = now + 1
    /\ lastOp' = NoOp
    /\ rate' = [id \in Idents |-> AgeTTL(rate[id], NoRate)]
    /\ kv' = [k \in AllKeys |-> AgeTTL(kv[k], NoEntry)]
    /\ UNCHANGED <<mode, maxReq, window, faultBudget, faults, pc, cnt, rid, log,
                   shadow, storeVars, lastQuery, llmVars, docVars>>

(***************************************************************************)
(* The vector stores: ChromaVectorStore and SimpleVectorStore              *)
(***************************************************************************)
\* A stored chunk: its id, its metadata, and `dist`, the cosine distance (in
\* hundredths) between its embedding and the embedding of the question asked.
ChunkLists ==
    {<<[kind |-> "text", dist |-> 30, words |-> 50]>>,
     <<[kind |-> "table", dist |-> 40, words |-> 150],
       [kind |-> "text", dist |-> 60, words |-> 150]>>}

IdxStr(i) == <<"0", "1", "2", "3", "4", "5", "6", "7", "8", "9", "10", "11",
               "12", "13", "14", "15">>[i + 1]

\* chroma_vector_store.py line 78:
\* f"{user_id}_{document_name}_{i}" if user_id else f"{document_name}_{i}"
ChunkId(user_id, document_name, i) ==
    IF user_id # None
    THEN user_id \o "_" \o document_name \o "_" \o IdxStr(i)
    ELSE document_name \o "_" \o IdxStr(i)

\* Lines 76-92: ids and metadata of the chunks of one add_documents call;
\* the metadata holds user_id only when one was given.
ChromaRows(chunks, document_name, user_id) ==
    [k \in 1..Len(chunks) |->
        [id |-> ChunkId(user_id, document_name, k - 1), user |-> user_id,
         doc |-> document_name, kind |-> chunks[k].kind,
         dist |-> chunks[k].dist, words |-> chunks[k].words]]

\* simple_vector_store.py lines 42-56: no tenant, id f"{document_name}_{i}".
SimpleRows(chunks, document_name) ==
    [k \in 1..Len(chunks) |->
        [id |-> ChunkId(None, document_name, k - 1), user |-> None,
         doc |-> document_name, kind |-> chunks[k].kind,
         dist |-> chunks[k].dist, words |-> chunks[k].words]]

StoredIds(c) == {c[k].id : k \in 1..Len(c)}

\* collection.add: a record whose id is already stored is left as it is.
RECURSIVE ChromaAdd(_, _)
ChromaAdd(c, rows) ==
    IF rows = <<>> THEN c
    ELSE ChromaAdd(IF Head(rows).id \in StoredIds(c) THEN c
                   ELSE Append(c, Head(rows)), Tail(rows))

NoSearch == [made |-> FALSE, n |-> 0, doc |-> None, user |-> None,
             nested |-> FALSE, rows |-> <<>>]
NoRetr == [made |-> FALSE, raised |-> FALSE, query_type |-> None,
           results |-> <<>>, total_found |-> 0]

\* add_documents of either store (chroma 66-121, simple 37-63); a failing
\* embedding model makes the Chroma call return success False.
AddDocuments ==
    /\ \E chunks \in ChunkLists, d \in Docs, u \in Users \cup {None},
          embedFails \in BOOLEAN :
         /\ Len(coll) + Len(chunks) <= MaxChunks
         /\ coll' = IF storeKind = "chroma"
                    THEN IF embedFails THEN coll
                         ELSE ChromaAdd(coll, ChromaRows(chunks, d, u))
                    ELSE coll \o SimpleRows(chunks, d)
    /\ lastSearch' = NoSearch
    /\ lastRetr' = NoRetr
    /\ UNCHANGED <<cacheVars, storeKind, lastQuery, llmVars, docVars>>

\* Names of uploaded files: os.path.basename(pdf_path) without '.pdf'
\* (rag_system.py line 37); secure_filename leaves underscores in place.
DocNames == Docs \cup {"A_d1"}

\* ChromaVectorStore.add_documents(chunks, document_name, user_id), the
\* embedding model working.
AddDocumentsAs(chunks, document_name, user_id) ==
    /\ storeKind = "chroma"
    /\ Len(coll) + Len(chunks) <= MaxChunks
    /\ coll' = ChromaAdd(coll, ChromaRows(chunks, document_name, user_id))
    /\ lastSearch' = NoSearch
    /\ lastRetr' = NoRetr
    /\ UNCHANGED <<cacheVars, storeKind, lastQuery, llmVars, docVars>>

AddNamed ==
    \E chunks \in ChunkLists, d \in DocNames, u \in Users \cup {None} :
        AddDocumentsAs(chunks, d, u)

\* A table chunk and a text chunk at any two distances from the query, in
\* hundredths: every twentieth, and the text chunk also one hundredth
\* behind the table chunk.
PairLists ==
    {<<[kind |-> "table", dist |-> 5 * dt, words |-> 50],
       [kind |-> "text", dist |-> dx, words |-> 50]>> :
        dt \in 0..MaxDistance,
        dx \in {5 * k : k \in 0..MaxDistance} \cup {5 * k + 1 : k \in 0..(MaxDistance - 1)}}

\* The chunks of a long document, the i-th at distance i/10 from the query,
\* long and short chunks in turn, tables at the given positions.
LongList(n, tablesAt) ==
    [i \in 1..n |-> [kind |-> IF i \in tablesAt THEN "table" ELSE "text",
                     dist |-> 10 * i,
                     words |-> IF i % 2 = 0 THEN 150 ELSE 50]]
LongLists ==
    {LongList(n, t) : n \in 0..MaxFetched, t \in {{}, {6}, {2, 7}, {11}}}

\* add_documents of either store on an empty collection, for the chunks of
\* one document whose distances from the query are known.
AddMeasured ==
    /\ Len(coll) = 0
    /\ \E chunks \in PairLists \cup LongLists :
         coll' = IF storeKind = "chroma"
                 THEN ChromaAdd(coll, ChromaRows(chunks, "d1", None))
                 ELSE coll \o SimpleRows(chunks, "d1")
    /\ lastSearch' = NoSearch
    /\ lastRetr' = NoRetr
    /\ UNCHANGED <<cacheVars, storeKind, lastQuery, llmVars, docVars>>

\* Insert a row into a list kept in ascending order of `dist`, behind the
\* rows of equal distance.
RECURSIVE InsertByDist(_, _)
InsertByDist(sorted, row) ==
    IF sorted = <<>> THEN <<row>>
    ELSE IF row.dist < Head(sorted).dist THEN <<row>> \o sorted
    ELSE <<Head(sorted)>> \o InsertByDist(Tail(sorted), row)

RECURSIVE NearestFirst(_)
NearestFirst(rows) ==
    IF rows = <<>> THEN <<>>
    ELSE InsertByDist(NearestFirst(SubSeq(rows, 1, Len(rows) - 1)),
                      rows[Len(rows)])

FirstN(seq, n) == SubSeq(seq, 1, IF Len(seq) < n THEN Len(seq) ELSE n)

\* chroma_vector_store.py lines 138-155: the `where` filter.
WhereMatchesEither(row, user_id, document_filter) ==
    IF user_id # None /\ document_filter # None
    THEN row.user = user_id \/ row.doc = document_filter
    ELSE IF user_id # None THEN row.user = user_id
    ELSE IF document_filter # None THEN row.doc = document_filter
    ELSE TRUE
WhereMatches(row, user_id, document_filter) ==
    IF user_id # None /\ document_filter # None
    THEN row.user = user_id /\ row.doc = document_filter
    ELSE IF user_id # None THEN row.user = user_id
    ELSE IF document_filter # None THEN row.doc = document_filter
    ELSE TRUE

Matching(c, user_id, document_filter) ==
    SelectSeq(c, LAMBDA row : WhereMatches(row, user_id, document_filter))

\* ChromaVectorStore.search (lines 123-174): Chroma's reply holds one inner
\* list per query embedding, here one; the early return for an empty
\* collection and the except branch return one empty inner list.
ChromaSearch(c, n, document_filter, user_id, embedFails) ==
    IF Len(c) = 0 \/ embedFails
    THEN [nested |-> TRUE, rows |-> <<>>]
    ELSE [nested |-> TRUE,
          rows |-> FirstN(NearestFirst(Matching(c, user_id, document_filter)), n)]

\* SimpleVectorStore.search (lines 65-96): flat lists, no filter.
SimpleSearch(c, n) ==
    [nested |-> FALSE, rows |-> FirstN(NearestFirst(c), n)]

\* A direct call of the store's search.
Search ==
    /\ \E n \in {1, 2 * TOP_K_RESULTS}, d \in Docs \cup {None},
          u \in Users \cup {None}, embedFails \in BOOLEAN :
         LET r == IF storeKind = "chroma"
                  THEN ChromaSearch(coll, n, d, u, embedFails)
                  ELSE SimpleSearch(coll, n)
         IN  /\ storeKind = "simple" => (d = None /\ u = None /\ ~embedFails)
             /\ lastSearch' = [made |-> TRUE, n |-> n, doc |-> d, user |-> u,
                               nested |-> r.nested, rows |-> r.rows]
    /\ lastRetr' = NoRetr
    /\ UNCHANGED <<cacheVars, coll, storeKind, lastQuery, llmVars, docVars>>

(***************************************************************************)
(* SmartRetriever (backend/src/retriever.py)                               *)
(***************************************************************************)
\* The keyword classes a question contains (lines 54-66); a keyword matches
\* as a substring, so "show" holds the conceptual keyword "how".
Keywords(question) ==
    CASE question = "hello" -> {}
      [] question = "show the table" -> {"table", "conceptual"}
      [] question = "the diagram" -> {"image"}
      [] question = "what is x" -> {"factual"}
      [] question = "explain x" -> {"conceptual"}
      [] question = "what does the table explain" -> {"table", "factual", "conceptual"}

RetrQuestions == {"hello", "show the table", "the diagram", "what is x",
                  "explain x", "what does the table explain"}

\* _detect_query_type (lines 49-69), given the classes whose keywords the
\* query contains: the first class that matches.
ClassOfConceptualFirst(kw) ==
    IF "table" \in kw THEN "table"
    ELSE IF "image" \in kw THEN "image"
    ELSE IF "conceptual" \in kw THEN "conceptual"
    ELSE IF "factual" \in kw THEN "factual"
    ELSE "general"
ClassOf(kw) ==
    IF "table" \in kw THEN "table"
    ELSE IF "image" \in kw THEN "image"
    ELSE IF "factual" \in kw THEN "factual"
    ELSE IF "conceptual" \in kw THEN "conceptual"
    ELSE "general"

DetectQueryType(question) == ClassOf(Keywords(question))

\* The keyword lists of lines 54, 58, 62 and 66, letter by letter.
KeywordLists ==
    [table |-> {<<"t", "a", "b", "l", "e">>,
               <<"d", "a", "t", "a">>,
               <<"n", "u", "m", "b", "e", "r", "s">>,
               <<"s", "t", "a", "t", "i", "s", "t", "i", "c", "s">>,
               <<"r", "o", "w", "s">>,
               <<"c", "o", "l", "u", "m", "n", "s">>},
     image |-> {<<"i", "m", "a", "g", "e">>,
               <<"p", "i", "c", "t", "u", "r", "e">>,
               <<"v", "i", "s", "u", "a", "l">>,
               <<"d", "i", "a", "g", "r", "a", "m">>,
               <<"c", "h", "a", "r", "t">>,
               <<"f", "i", "g", "u", "r", "e">>},
     factual |-> {<<"w", "h", "a", "t">>,
                 <<"w", "h", "e", "n">>,
                 <<"w", "h", "e", "r", "e">>,
                 <<"w", "h", "o">>,
                 <<"h", "o", "w", " ", "m", "a", "n", "y">>,
                 <<"w", "h", "i", "c", "h">>},
     conceptual |-> {<<"w", "h", "y">>,
                    <<"h", "o", "w">>,
                    <<"e", "x", "p", "l", "a", "i", "n">>,
                    <<"d", "e", "s", "c", "r", "i", "b", "e">>,
                    <<"c", "o", "n", "c", "e", "p", "t">>}]

\* Words and phrases a query is typed from, and the queries of up to
\* MaxWords of them, a space between two.
Vocabulary ==
    {<<"T", "a", "b", "l", "e">>,
     <<"d", "a", "t", "a", "b", "a", "s", "e">>,
     <<"c", "h", "a", "r", "t">>,
     <<"W", "h", "a", "t">>,
     <<"h", "o", "w", " ", "m", "a", "n", "y">>,
     <<"h", "o", "w">>,
     <<"s", "h", "o", "w">>,
     <<"w", "h", "y">>,
     <<"e", "x", "p", "l", "a", "i", "n">>,
     <<"x">>}

RECURSIVE QueryTexts(_)
QueryTexts(n) ==
    IF n = 0 THEN {<<>>}
    ELSE LET shorter == QueryTexts(n - 1) IN
         shorter \cup Vocabulary
                 \cup {t \o <<" ">> \o w : t \in shorter \ {<<>>}, w \in Vocabulary}

\* query.lower() (line 51)
Lower(text) ==
    [i \in 1..Len(text) |->
        IF text[i] = "W" THEN "w" ELSE IF text[i] = "T" THEN "t" ELSE text[i]]

\* `word in query_lower`: word is a substring of the query.
Contains(text, word) ==
    \E i \in 1..(Len(text) - Len(word) + 1) :
        SubSeq(text, i, i + Len(word) - 1) = word

\* The classes for which any(word in query_lower ...) is true.
KeywordsIn(text) ==
    {c \in DOMAIN KeywordLists : \E word \in KeywordLists[c] : Contains(Lower(text), word)}

NoDetection == [made |-> FALSE, query |-> <<>>, query_type |-> None]

\* A call _detect_query_type(query).
detect_query_type ==
    /\ ~det.made
    /\ \E query \in QueryTexts(MaxWords) :
         det' = [made |-> TRUE, query |-> query,
                 query_type |-> ClassOf(KeywordsIn(query))]
    /\ UNCHANGED <<cacheVars, storeVars, lastQuery, llmVars, pdf, tbl, conv, lazy, changedAt>>

\* The caller takes the class.
DetectQueryType_Done ==
    /\ det.made
    /\ det' = NoDetection
    /\ UNCHANGED <<cacheVars, storeVars, lastQuery, llmVars, pdf, tbl, conv, lazy, changedAt>>

\* What `for doc, meta, dist in zip(documents, metadatas, distances)` yields:
\* the chunks of a flat reply, but for Chroma's nested reply one triple of
\* the inner lists themselves.
NoRow == [id |-> None, user |-> None, doc |-> None, kind |-> None,
          dist |-> 0, words |-> 0]
Zipped(sr) ==
    IF sr.nested THEN <<[isrow |-> FALSE, row |-> NoRow]>>
    ELSE [k \in 1..Len(sr.rows) |-> [isrow |-> TRUE, row |-> sr.rows[k]]]

\* len(search_results['documents']) (line 37).
TotalFound(sr) == Len(Zipped(sr))

\* _filter_by_query_type (71-107) subscripts meta['chunk_type'] unless the
\* query type is 'general'; _rerank_results (109-136) computes 1 - dist.
\* Both raise TypeError on a triple of lists.
FilterRaises(sr, qtype) ==
    qtype # "general" /\ \E k \in 1..Len(Zipped(sr)) : ~Zipped(sr)[k].isrow
RerankRaises(sr) == \E k \in 1..Len(Zipped(sr)) : ~Zipped(sr)[k].isrow

KindMatches(qtype, row) ==
    (qtype = "table" /\ row.kind = "table") \/ (qtype = "image" /\ row.kind = "image")

\* Lines 85-101: the distance in thousandths, times 0.8 for a matching kind.
FilteredDistUnboosted(qtype, row) == row.dist * 10
FilteredDist(qtype, row) ==
    IF KindMatches(qtype, row) THEN row.dist * 8 ELSE row.dist * 10

\* Lines 114-124: the score in units of 1/100000: (1 - dist), times 1.2 for
\* a matching kind, times 1.1 for a long chunk on a conceptual query.
Score(qtype, row) ==
    (1000 - FilteredDist(qtype, row))
        * (IF KindMatches(qtype, row) THEN 12 ELSE 10)
        * (IF qtype = "conceptual" /\ row.words > 100 THEN 11 ELSE 10)

\* Line 134: sort(key=score, reverse=True); equal scores keep their order.
RECURSIVE InsertByScore(_, _)
InsertByScore(sorted, r) ==
    IF sorted = <<>> THEN <<r>>
    ELSE IF r.score > Head(sorted).score THEN <<r>> \o sorted
    ELSE <<Head(sorted)>> \o InsertByScore(Tail(sorted), r)

RECURSIVE BestFirst(_)
BestFirst(rs) ==
    IF rs = <<>> THEN <<>>
    ELSE InsertByScore(BestFirst(SubSeq(rs, 1, Len(rs) - 1)), rs[Len(rs)])

Ranked(qtype, sr) ==
    BestFirst([k \in 1..Len(sr.rows) |->
                  [row |-> sr.rows[k], score |-> Score(qtype, sr.rows[k]),
                   distance |-> FilteredDist(qtype, sr.rows[k])]])

\* SmartRetriever.retrieve (lines 12-38), given the store's reply.
Retrieved(question, sr) ==
    LET qtype == DetectQueryType(question) IN
    IF FilterRaises(sr, qtype) \/ RerankRaises(sr)
    THEN [made |-> TRUE, raised |-> TRUE, query_type |-> qtype,
          results |-> <<>>, total_found |-> 0]
    ELSE [made |-> TRUE, raised |-> FALSE, query_type |-> qtype,
          results |-> FirstN(Ranked(qtype, sr), TOP_K_RESULTS),
          total_found |-> TotalFound(sr)]

\* Lines 22-25: the one search a retrieve call issues. retrieve has no
\* document or tenant parameter, so the store is searched without filter.
RetrieverSearch(c, kind, embedFails) ==
    IF kind = "chroma"
    THEN ChromaSearch(c, 2 * TOP_K_RESULTS, None, None, embedFails)
    ELSE SimpleSearch(c, 2 * TOP_K_RESULTS)

\* A call retrieve(query, context_history).
Retrieve ==
    /\ \E q \in RetrQuestions, embedFails \in BOOLEAN :
         LET sr == RetrieverSearch(coll, storeKind, embedFails) IN
         /\ storeKind = "simple" => ~embedFails
         /\ lastSearch' = [made |-> TRUE, n |-> 2 * TOP_K_RESULTS, doc |-> None,
                           user |-> None, nested |-> sr.nested, rows |-> sr.rows]
         /\ lastRetr' = Retrieved(q, sr)
    /\ UNCHANGED <<cacheVars, coll, storeKind, lastQuery, llmVars, docVars>>

(***************************************************************************)
(* RAGSystem.query (backend/src/rag_system.py)                             *)
(***************************************************************************)
NoInfoAnswer == "I couldn't find relevant information in the documents to answer your question."
ErrorAnswer == "I encountered an error while processing your question. Please try again."
ApologyAnswer == "I apologize, but I encountered an error while generating a response. Please try again."
NoKeyAnswer == "ERROR: Groq API key is not set or is invalid. Please add a valid API key to the .env file."

\* The parameters of SmartRetriever.retrieve besides self (retriever.py 12),
\* and the keyword arguments RAGSystem.query passes to it (lines 218-219).
RetrieveParams == {"query", "context_history"}
RetrieveKeywords == {"document_filter", "user_id"}

\* A Python call binds only when every keyword names a parameter; otherwise
\* it raises TypeError before the body runs.
CallBinds(params, keywords) == keywords \subseteq params

\* Lines 212-215: a truthy cached result is returned with cached set to True.
ServeCachedUnmarked(cached_result) == cached_result
ServeCached(cached_result) == [cached_result EXCEPT !.cached = TRUE]

RECURSIVE SumScores(_)
SumScores(results) ==
    IF results = <<>> THEN 0 ELSE Head(results).score + SumScores(Tail(results))

MinOf(a, b) == IF a < b THEN a ELSE b

\* LLMHandler._calculate_confidence (llm_handler.py 184-193), in hundredths:
\* min(avg_score * (1 + min(n / 5, 1.0) * 0.2), 1.0), scores in 1/100000.
CalculateConfidence(results) ==
    IF results = <<>> THEN 0
    ELSE MinOf(((SumScores(results) \div Len(results))
                   * (25 + MinOf(Len(results), 5))) \div 25, 100000) \div 1000

KindsOf(results) == {results[k].row.kind : k \in 1..Len(results)}

\* list(set(...)): the kinds, each once, in an order the hash seed decides.
Orderings(S) ==
    {o \in [1..Cardinality(S) -> S] : \A a, b \in 1..Cardinality(S) : a # b => o[a] # o[b]}

GenOutcomes == {"ok", "nokey", "fail"}

\* LLMHandler.generate_response (llm_handler.py 19-79), then rag_system.py
\* 243-248: query_type and cached=False are added.
Generated(gen, results, types, qtype) ==
    CASE gen = "ok" ->
           Response("generated", Len(results), CalculateConfidence(results), types, qtype)
      [] gen = "nokey" -> Response(NoKeyAnswer, Len(results), 0, types, qtype)
      [] gen = "fail" -> Response(ApologyAnswer, 0, 0, <<>>, qtype)

\* Lines 222-228 and 257-262; the error answer carries no 'cached' key.
NoInfoResponse(qtype) == Response(NoInfoAnswer, 0, 0, <<>>, qtype)
ErrorResponse == Response(ErrorAnswer, 0, 0, <<>>, "error")

QueryResult(q, d, u, resp, hasCached, hit, fault, retr, searches, gens, writes) ==
    [made |-> TRUE, question |-> q, doc |-> d, user |-> u, resp |-> resp,
     hasCached |-> hasCached, hit |-> hit, cacheFault |-> fault,
     retrCalls |-> retr,
     searches |-> searches, genCalls |-> gens, cacheWrites |-> writes]

NoQuery == [made |-> FALSE, question |-> None, doc |-> None, user |-> None,
            resp |-> NoDict, hasCached |-> FALSE, hit |-> FALSE,
            cacheFault |-> FALSE, retrCalls |-> 0,
            searches |-> 0, genCalls |-> 0, cacheWrites |-> 0]

\* RAGSystem.query (lines 200-262), one request from entry to return.
\* retrCalls counts the calls of retrieve whose body ran, searches the calls
\* of the store's search, genCalls those of generate_response and
\* cacheWrites those of cache_query_result; cacheFault tells whether the
\* cache backend raised during the request.
Query ==
    /\ \E q \in Questions, d \in Docs \cup {None}, u \in Users \cup {None},
          f \in FaultChoice :
         LET key == CacheKey("query", q, d, KeySuffix(u))
             got == IF Enabled /\ ~f THEN GetDecoded(kv, key)
                    ELSE [hit |-> FALSE, val |-> NoDict]
         IN
         /\ ~Enabled => ~f
         /\ lastOp' = Op("get_query", key, got.hit, got.hit, got.val, f)
         /\ IF got.hit
            THEN /\ lastQuery' = QueryResult(q, d, u, ServeCached(got.val), TRUE,
                                             TRUE, FALSE, 0, 0, 0, 0)
                 /\ UNCHANGED <<faults, kv, shadow, lastSearch, lastRetr>>
            ELSE IF ~CallBinds(RetrieveParams, RetrieveKeywords)
            THEN /\ lastQuery' = QueryResult(q, d, u, ErrorResponse, FALSE,
                                             FALSE, f, 0, 0, 0, 0)
                 /\ faults' = IF f THEN faults + 1 ELSE faults
                 /\ UNCHANGED <<kv, shadow, lastSearch, lastRetr>>
            ELSE \E embedFails \in BOOLEAN :
                 LET sr == RetrieverSearch(coll, storeKind, embedFails)
                     r == Retrieved(q, sr)
                 IN
                 /\ lastSearch' = [made |-> TRUE, n |-> 2 * TOP_K_RESULTS,
                                   doc |-> None, user |-> None,
                                   nested |-> sr.nested, rows |-> sr.rows]
                 /\ lastRetr' = r
                 /\ IF r.raised
                    THEN /\ lastQuery' = QueryResult(q, d, u, ErrorResponse, FALSE,
                                                     FALSE, f, 1, 1, 0, 0)
                         /\ faults' = IF f THEN faults + 1 ELSE faults
                         /\ UNCHANGED <<kv, shadow>>
                    ELSE IF r.results = <<>>
                    THEN /\ lastQuery' = QueryResult(q, d, u,
                                             NoInfoResponse(r.query_type), TRUE,
                                             FALSE, f, 1, 1, 0, 0)
                         /\ faults' = IF f THEN faults + 1 ELSE faults
                         /\ UNCHANGED <<kv, shadow>>
                    ELSE \E types \in Orderings(KindsOf(r.results)),
                            gen \in GenOutcomes, g \in FaultChoice :
                         LET resp == Generated(gen, r.results, types, r.query_type)
                             stores == Enabled /\ ~g /\ ~SetexRaises(QUERY_CACHE_TTL)
                         IN
                         /\ ~(f /\ g)
                         /\ ~Enabled => ~g
                         /\ lastQuery' = QueryResult(q, d, u, resp, TRUE, FALSE,
                                                     f \/ g, 1, 1, 1, 1)
                         /\ faults' = IF f \/ g THEN faults + 1 ELSE faults
                         /\ kv' = IF stores
                                  THEN RedisSetex(kv, key, QUERY_CACHE_TTL, JsonDumps(resp))
                                  ELSE kv
                         /\ shadow' = IF stores
                                      THEN [shadow EXCEPT ![key] = Stored(resp, QUERY_CACHE_TTL)]
                                      ELSE shadow
    /\ UNCHANGED <<mode, maxReq, window, faultBudget, now, rate, pc, cnt, rid, log,
                   coll, storeKind, llmVars, docVars>>

\* The generation step of query alone (rag_system.py 236-248): a call
\* generate_response(question, retrieval_results['results'], history) on the
\* results of the last retrieve call that returned some.
generate_response ==
    /\ lastRetr.made /\ ~lastRetr.raised /\ lastRetr.results # <<>>
    /\ \E gen \in GenOutcomes, types \in Orderings(KindsOf(lastRetr.results)) :
         lastQuery' = QueryResult(None, None, None,
                                  Generated(gen, lastRetr.results, types,
                                            lastRetr.query_type),
                                  TRUE, FALSE, FALSE, 1, 1, 1, 0)
    /\ UNCHANGED <<cacheVars, storeVars, llmVars, docVars>>

(***************************************************************************)
(* LLMFallbackHandler.query_text: the provider cascade                     *)
(***************************************************************************)
\* The providers __init__ appends, in this order, each only if its API key
\* is configured (lines 27-31).
ProviderOrder == <<"Groq", "SambaNova", "OpenRouter", "Hugging Face">>

\* What a provider's call does within one query_text call:
\*   "ok"        the completion returns an answer text;
\*   "rate", "quota", "429"  it raises, and the error text holds that word;
\*   "other"     it raises another error;
\*   "nocontent" the completion returns with content None, and len(answer)
\*               on line 202 raises TypeError inside the try block;
\*   "nousage"   the completion returns an answer text and usage None (the
\*               SDK's default for a reply without a usage object), and
\*               response.usage.total_tokens on line 209 raises
\*               AttributeError inside the try block.
Outcomes == {"ok", "rate", "quota", "429", "other", "nocontent", "nousage"}

\* str(e) as far as line 217 looks at it.
ErrorText(outcome) ==
    [rate |-> outcome = "rate", quota |-> outcome = "quota",
     code429 |-> outcome = "429"]

\* Line 217: `'rate' in msg.lower() or 'quota' in msg.lower() or '429' in msg`.
IsQuotaError(msg) == msg.rate \/ msg.quota \/ msg.code429

\* Lines 187-190: OpenRouter answers simple questions with its small model.
ChosenModel(name, complex) ==
    IF name = "OpenRouter" /\ ~complex THEN "text_model_simple" ELSE "text_model"

\* Strictly increasing index lists of 1..n: the subsets of configured keys.
RECURSIVE Subsequences(_)
Subsequences(n) ==
    IF n = 0 THEN {<<>>}
    ELSE LET rest == Subsequences(n - 1) IN
         rest \cup {Append(s, n) : s \in rest}

ProviderLists ==
    {s \in Subsequences(Len(ProviderOrder)) : Len(s) <= MaxProviders}

IdleLLM == [pc |-> "idle", i |-> 0, complex |-> FALSE, calls |-> <<>>,
            success |-> FALSE, answer |-> None, provider |-> None,
            model |-> None, raised |-> FALSE]

\* Lines 175-179: the call starts the loop at the first provider.
LLM_Call ==
    /\ llm.pc = "idle"
    /\ \E complex \in BOOLEAN :
         llm' = [IdleLLM EXCEPT !.pc = "loop", !.i = 1, !.complex = complex,
                                !.calls = [k \in 1..Len(providers) |-> 0]]
    /\ UNCHANGED <<cacheVars, storeVars, lastQuery, providers, docVars>>

\* Lines 204-210: the result of a successful provider.
SuccessResult(st, name) ==
    [st EXCEPT !.pc = "done", !.success = TRUE, !.answer = "answer of " \o name,
               !.provider = name, !.model = ChosenModel(name, st.complex)]

\* Lines 223-229: the last provider failed with an error that is no quota error.
ApologyResult(st) ==
    [st EXCEPT !.pc = "done", !.success = FALSE, !.answer = "apology",
               !.provider = "None", !.model = "None"]

\* Lines 235-240: the loop ran out of providers.
UnavailableResult(st) ==
    [st EXCEPT !.pc = "done", !.success = FALSE, !.answer = "unavailable",
               !.provider = "None", !.model = "None"]

\* `continue`: on to the next provider of the list.
TryNext(st) == [st EXCEPT !.i = @ + 1]

\* Lines 179-232: one iteration of the loop over self.providers.
LLM_Try ==
    /\ llm.pc = "loop"
    /\ llm.i <= Len(providers)
    /\ LET p == providers[llm.i]
           called == [llm EXCEPT !.calls[llm.i] = @ + 1]
       IN  llm' = IF p.outcome = "ok"
                  THEN SuccessResult(called, p.name)
                  ELSE IF IsQuotaError(ErrorText(p.outcome))
                  THEN TryNext(called)
                  ELSE IF llm.i = Len(providers)
                  THEN ApologyResult(called)
                  ELSE TryNext(called)
    /\ UNCHANGED <<cacheVars, storeVars, lastQuery, providers, docVars>>

\* Lines 234-240: past the last provider.
LLM_Exhausted ==
    /\ llm.pc = "loop"
    /\ llm.i > Len(providers)
    /\ llm' = UnavailableResult(llm)
    /\ UNCHANGED <<cacheVars, storeVars, lastQuery, providers, docVars>>

\* The caller has the result; the handler is ready for the next call.
LLM_Return ==
    /\ llm.pc = "done"
    /\ llm' = IdleLLM
    /\ UNCHANGED <<cacheVars, storeVars, lastQuery, providers, docVars>>

(***************************************************************************)
(* AdvancedTableExtractor.extract_tables (advanced_table_extractor.py)     *)
(***************************************************************************)
LatticeFloor == 50  \* `accuracy > 50` (line 155)
StreamFloor == 40   \* `accuracy > 40` (line 182)
TabulaAccuracy == 75     \* line 232
PdfplumberAccuracy == 60 \* line 267

RECURSIVE SeqsUpTo(_, _)
SeqsUpTo(S, n) ==
    IF n = 0 THEN {<<>>}
    ELSE LET shorter == SeqsUpTo(S, n - 1) IN
         shorter \cup {Append(q, x) : q \in {r \in shorter : Len(r) = n - 1}, x \in S}

\* What a page holds for the extractor: the accuracies of the tables Camelot
\* reports in lattice and in stream mode (at the floor and above it), how many of them the loop gets
\* through before it raises (all of them when nothing raises), and the
\* number of usable tables Tabula and pdfplumber report.
PageTableInputs ==
    [lattice : SeqsUpTo({50, 70}, MaxTables), latticeDone : 0..MaxTables,
     stream : SeqsUpTo({40, 45}, MaxTables), streamDone : 0..MaxTables,
     tabula : 0..1, plumber : 0..1]

\* Lines 154-163 and 181-190: the tables of the list, as far as the loop
\* gets, whose accuracy is above the floor; table_index is the position in
\* the list the library returned.
RECURSIVE Accepted(_, _, _, _, _)
Accepted(accs, done, floor, method, from) ==
    IF from > Len(accs) \/ from > done THEN <<>>
    ELSE (IF accs[from] > floor
          THEN <<[method |-> method, accuracy |-> accs[from], table_index |-> from - 1]>>
          ELSE <<>>)
         \o Accepted(accs, done, floor, method, from + 1)

Found(n, method, accuracy) ==
    [k \in 1..n |-> [method |-> method, accuracy |-> accuracy, table_index |-> k - 1]]

\* The result of one method together with the methods invoked so far.
Ran(prev, name, tables) ==
    [tables |-> prev.tables \o tables, invoked |-> Append(prev.invoked, name)]

NoTables == [tables |-> <<>>, invoked |-> <<>>]

\* _extract_with_camelot (137-202): lattice, then stream if lattice gave none.
ExtractWithCamelotBoth(prev, in) ==
    LET a == Ran(prev, "camelot-lattice",
                 Accepted(in.lattice, in.latticeDone, LatticeFloor, "camelot-lattice", 1))
    IN  Ran(a, "camelot-stream",
            Accepted(in.stream, in.streamDone, StreamFloor, "camelot-stream", 1))
ExtractWithCamelot(prev, in) ==
    LET a == Ran(prev, "camelot-lattice",
                 Accepted(in.lattice, in.latticeDone, LatticeFloor, "camelot-lattice", 1))
    IN  IF a.tables # <<>> THEN a
        ELSE Ran(a, "camelot-stream",
                 Accepted(in.stream, in.streamDone, StreamFloor, "camelot-stream", 1))

\* extract_tables (109-135): Camelot if available, Tabula if nothing was
\* found and it is available, pdfplumber if still nothing was found.
ExtractTables(camelot_available, tabula_available, in) ==
    LET c == IF camelot_available THEN ExtractWithCamelot(NoTables, in) ELSE NoTables
        t == IF c.tables = <<>> /\ tabula_available
             THEN Ran(c, "tabula", Found(in.tabula, "tabula", TabulaAccuracy))
             ELSE c
    IN  IF t.tables = <<>>
        THEN Ran(t, "pdfplumber", Found(in.plumber, "pdfplumber", PdfplumberAccuracy))
        ELSE t

NoExtraction == [made |-> FALSE, camelot |-> FALSE, tabula |-> FALSE,
                 lattice |-> <<>>, latticeDone |-> 0, stream |-> <<>>,
                 streamDone |-> 0, tabulaFound |-> 0, plumberFound |-> 0,
                 tables |-> <<>>, invoked |-> <<>>]

\* A call extract_tables(pdf_path, page_num) on some page.
extract_tables ==
    /\ ~tbl.made
    /\ \E in \in PageTableInputs, ca \in BOOLEAN, ta \in BOOLEAN :
         LET r == ExtractTables(ca, ta, in) IN
         /\ in.latticeDone <= Len(in.lattice)
         /\ in.streamDone <= Len(in.stream)
         /\ tbl' = [made |-> TRUE, camelot |-> ca, tabula |-> ta,
                    lattice |-> in.lattice, latticeDone |-> in.latticeDone,
                    stream |-> in.stream, streamDone |-> in.streamDone,
                    tabulaFound |-> in.tabula, plumberFound |-> in.plumber,
                    tables |-> r.tables, invoked |-> r.invoked]
    /\ UNCHANGED <<cacheVars, storeVars, lastQuery, llmVars, pdf, det, conv, lazy, changedAt>>

\* The caller takes the tables; the extractor is ready for the next page.
ExtractTables_Done ==
    /\ tbl.made
    /\ tbl' = NoExtraction
    /\ UNCHANGED <<cacheVars, storeVars, lastQuery, llmVars, pdf, det, conv, lazy, changedAt>>

(***************************************************************************)
(* PDFProcessor.extract_content (pdf_processor.py)                         *)
(***************************************************************************)
PoolSize == 4   \* `max_workers = min(4, total_pages)` (line 70)

\* What a page holds: text only (two chunks of text), a bordered table under
\* a paragraph (one chunk of text), or something extract_text raises on.
PageKinds == {"text", "table", "bad"}
Documents == SeqsUpTo(PageKinds, MaxPages)

\* _extract_text_chunks (101-130): page_number is page_num + 1.
ExtractTextChunks(kind, page_num) ==
    [i \in 1..(IF kind = "text" THEN 2 ELSE 1) |->
        [chunk_type |-> "text", page_number |-> page_num + 1, chunk_index |-> i - 1]]

\* What extract_tables finds on a page of each kind.
TableInputs(kind) ==
    [lattice |-> IF kind = "table" THEN <<70>> ELSE <<>>,
     latticeDone |-> IF kind = "table" THEN 1 ELSE 0,
     stream |-> <<>>, streamDone |-> 0, tabula |-> 0, plumber |-> 0]
PageTables(kind) == ExtractTables(TRUE, TRUE, TableInputs(kind)).tables

\* _process_single_page (35-55): the text chunks of the page and nothing
\* else; an exception leaves page_chunks as it is, which is empty.
ProcessSinglePageKeepsPartial(kind, page_num) ==
    IF kind = "bad" THEN ExtractTextChunks("table", page_num)
    ELSE ExtractTextChunks(kind, page_num)
ProcessSinglePage(kind, page_num) ==
    IF kind = "bad" THEN <<>> ELSE ExtractTextChunks(kind, page_num)

NoDocument == [pc |-> "idle", pages |-> <<>>, max_workers |-> 0, started |-> 0,
               results |-> <<>>, all_chunks |-> <<>>]

\* The page numbers (from 0) handed to a worker, collected, still running.
Started == 0..(pdf.started - 1)
Collected == {pdf.results[k].page_num : k \in 1..Len(pdf.results)}
Running == Started \ Collected

\* Lines 60-72: open the document, count its pages, build the pool and
\* submit every page. An unreadable document raises, and so does a pool of
\* no worker (ThreadPoolExecutor rejects max_workers = 0).
ExtractContent_Open ==
    /\ pdf.pc = "idle"
    /\ \E d \in Documents, openFails \in BOOLEAN :
         pdf' = [NoDocument EXCEPT
                   !.pages = d,
                   !.max_workers = IF PoolSize < Len(d) THEN PoolSize ELSE Len(d),
                   !.pc = IF openFails \/ Len(d) = 0 THEN "raised" ELSE "running"]
    /\ UNCHANGED <<cacheVars, storeVars, lastQuery, llmVars, tbl, det, conv, lazy, changedAt>>

\* A free worker takes the next submitted page from the pool's queue.
Worker_Start ==
    /\ pdf.pc = "running"
    /\ pdf.started < Len(pdf.pages)
    /\ Cardinality(Running) < pdf.max_workers
    /\ pdf' = [pdf EXCEPT !.started = @ + 1]
    /\ UNCHANGED <<cacheVars, storeVars, lastQuery, llmVars, tbl, det, conv, lazy, changedAt>>

\* Lines 81-88: a worker finishes its page and as_completed hands the future
\* over; results gets the page's chunks under its page number.
Worker_Finish ==
    /\ pdf.pc = "running"
    /\ \E p \in Running :
         pdf' = [pdf EXCEPT !.results =
                    Append(@, [page_num |-> p,
                               chunks |-> ProcessSinglePage(pdf.pages[p + 1], p)])]
    /\ UNCHANGED <<cacheVars, storeVars, lastQuery, llmVars, tbl, det, conv, lazy, changedAt>>

\* results[page_num]
ResultOf(results, page_num) ==
    LET k == CHOOSE k \in 1..Len(results) : results[k].page_num = page_num
    IN  results[k].chunks

\* Lines 91-92: `for page_num in sorted(results.keys())`; a dict iterates in
\* insertion order, sorted() puts the keys in ascending order.
RECURSIVE InKeyOrder(_, _)
InKeyOrder(results, from) ==
    IF from > Len(results) THEN <<>>
    ELSE results[from].chunks \o InKeyOrder(results, from + 1)
RECURSIVE InPageOrder(_, _, _)
InPageOrder(results, page_num, total) ==
    IF page_num >= total THEN <<>>
    ELSE (IF \E k \in 1..Len(results) : results[k].page_num = page_num
          THEN ResultOf(results, page_num) ELSE <<>>)
         \o InPageOrder(results, page_num + 1, total)

CombineAsCompleted(results, total) == InKeyOrder(results, 1)
Combine(results, total) == InPageOrder(results, 0, total)

\* Lines 90-95: the as_completed loop is over, which is when every future is
\* done; combine and return.
ExtractContent_Return ==
    /\ pdf.pc = "running"
    /\ Len(pdf.results) = Len(pdf.pages)
    /\ pdf' = [pdf EXCEPT !.pc = "returned",
                          !.all_chunks = Combine(pdf.results, Len(pdf.pages))]
    /\ UNCHANGED <<cacheVars, storeVars, lastQuery, llmVars, tbl, det, conv, lazy, changedAt>>

\* The caller takes the result or the exception; the next upload may start.
ExtractContent_Done ==
    /\ pdf.pc \in {"returned", "raised"}
    /\ pdf' = NoDocument
    /\ UNCHANGED <<cacheVars, storeVars, lastQuery, llmVars, tbl, det, conv, lazy, changedAt>>

(***************************************************************************)
(* UserLimits (backend/src/limits.py)                                      *)
(***************************************************************************)
\* The check_rate_limit call of check_query_limit (lines 79-83) as one step:
\* no other call in progress, no backend failure. max_requests and window
\* stand for MAX_QUERIES_PER_DAY and the 24 hours; the last cache call
\* records which method of UserLimits made the call.
QueryLimitCall(caller) ==
    /\ AllIdle
    /\ Len(log) < MaxCalls
    /\ \E id \in Idents :
         IF ~Enabled
         THEN /\ Finish(1, TRUE, maxReq, FALSE)
              /\ lastOp' = Op(caller, SessionKey("s1"), TRUE, FALSE, NoDict, FALSE)
              /\ UNCHANGED rate
         ELSE LET count == RedisGetCount(rate, id) IN
              IF LimitReached(count, maxReq)
              THEN /\ Finish(1, FALSE, 0, FALSE)
                   /\ lastOp' = Op(caller, SessionKey("s1"), FALSE, FALSE, NoDict, FALSE)
                   /\ UNCHANGED rate
              ELSE /\ rate' = RedisExpire(RedisIncr(rate, id), id, window)
                   /\ Finish(1, TRUE, Remaining(count, maxReq), FALSE)
                   /\ lastOp' = Op(caller, SessionKey("s1"), TRUE, FALSE, NoDict, FALSE)
    /\ UNCHANGED <<mode, maxReq, window, faultBudget, faults, now, kv, rid,
                   shadow, storeVars, lastQuery, llmVars, docVars>>

\* check_query_limit (67-100), called before a query is answered.
check_query_limit == QueryLimitCall("check_query_limit")

\* get_user_usage_stats (131-161): check_document_limit, which computes from
\* its arguments alone, then check_query_limit.
get_user_usage_stats == QueryLimitCall("get_user_usage_stats")

(***************************************************************************)
(* RAGSystem.add_document and RAGSystem.delete_document                    *)
(***************************************************************************)
\* The tenants that upload and delete documents, and the documents' names.
Uploaders == {"A"}
UploadNames == {"d1"}

\* add_document (rag_system.py 33-68): the chunks extract_content returns
\* go to the vector store; no chunks, or an error, and nothing is added.
\* No cache call is made. changedAt keeps the second of the tenant's last
\* change of the collection.
add_document ==
    /\ \E chunks \in ChunkLists \cup {<<>>}, d \in UploadNames, u \in Uploaders,
          embedFails \in BOOLEAN :
         /\ Len(coll) + Len(chunks) <= MaxChunks
         /\ coll' = IF chunks = <<>> \/ embedFails THEN coll
                    ELSE ChromaAdd(coll, ChromaRows(chunks, d, u))
         /\ changedAt' = IF coll' # coll THEN [changedAt EXCEPT ![u] = now]
                         ELSE changedAt
    /\ storeKind = "chroma"
    /\ lastSearch' = NoSearch
    /\ lastRetr' = NoRetr
    /\ UNCHANGED <<cacheVars, storeKind, lastQuery, llmVars, pdf, tbl, det, conv,
                   lazy>>

\* The where filter of ChromaVectorStore.delete_document (lines 181-191).
DeleteWhere(row, document_name, user_id) ==
    IF user_id # None
    THEN row.user = user_id /\ row.doc = document_name
    ELSE row.doc = document_name

\* delete_document (rag_system.py 282-289, chroma_vector_store.py 176-208):
\* the chunks the filter selects are deleted; 'Document not found' when it
\* selects none. No cache call is made.
delete_document ==
    /\ \E d \in UploadNames, u \in Uploaders :
         /\ coll' = SelectSeq(coll, LAMBDA row : ~DeleteWhere(row, d, u))
         /\ changedAt' = IF coll' # coll THEN [changedAt EXCEPT ![u] = now]
                         ELSE changedAt
    /\ storeKind = "chroma"
    /\ lastSearch' = NoSearch
    /\ lastRetr' = NoRetr
    /\ UNCHANGED <<cacheVars, storeKind, lastQuery, llmVars, pdf, tbl, det, conv,
                   lazy>>

(***************************************************************************)
(* The conversation buffer of one tenant: /ask and /clear                  *)
(***************************************************************************)
\* json.dumps and json.loads of a list of strings.
JsonDumpsList(messages) == [array |-> messages]
JsonLoadsList(text) == text.array

\* The question of the n-th request and the answer query returns for it.
QuestionOf(n) == <<"question", n>>
AnswerOf(n) == <<"answer", n>>

\* Nothing under conversation:{user_id}, no request under way.
NoConversation ==
    [stored |-> [live |-> FALSE, val |-> JsonDumpsList(<<>>)],
     at |-> [p \in Procs |-> "idle"],
     num |-> [p \in Procs |-> 0],
     hist |-> [p \in Procs |-> <<>>],
     started |-> 0, done |-> <<>>, overlap |-> FALSE]

\* get_user_conversation (redis_cache.py 319-350): [] when the cache is
\* disabled, when the key is absent and when GET raises.
GetUserConversation(f) ==
    IF ~Enabled \/ f \/ ~conv.stored.live
    THEN <<>>
    ELSE JsonLoadsList(conv.stored.val)

\* ask_question up to line 766: the query limit and the document check may
\* end the request early; otherwise the history is read.
Ask_Get(p) ==
    /\ conv.at[p] = "idle"
    /\ conv.started < MaxCalls
    /\ \E early \in BOOLEAN, f \in FaultChoice :
         /\ early => ~f
         /\ ~Enabled => ~f
         /\ faults' = IF f THEN faults + 1 ELSE faults
         /\ IF early
            THEN conv' = [conv EXCEPT !.started = @ + 1]
            ELSE conv' = [conv EXCEPT
                    !.started = @ + 1,
                    !.at[p] = "asked",
                    !.num[p] = conv.started + 1,
                    !.hist[p] = GetUserConversation(f),
                    !.overlap = @ \/ (\E q \in Procs \ {p} : conv.at[q] # "idle")]
    /\ UNCHANGED <<mode, maxReq, window, faultBudget, now, rate, kv, pc, cnt, rid,
                   log, lastOp, shadow, storeVars, lastQuery, llmVars,
                   pdf, tbl, det, lazy, changedAt>>

\* Lines 768-779: query answers, question and answer are appended to the
\* list read at line 766, and save_user_conversation (299-317) writes the
\* whole list with SETEX unless the cache is disabled or the command raises.
Ask_Save(p) ==
    /\ conv.at[p] = "asked"
    /\ \E f \in FaultChoice :
         LET n == conv.num[p]
             conversation_history ==
                 conv.hist[p] \o <<QuestionOf(n), AnswerOf(n)>>
             saved == Enabled /\ ~f
         IN
         /\ ~Enabled => ~f
         /\ faults' = IF f THEN faults + 1 ELSE faults
         /\ conv' = [conv EXCEPT
                 !.stored = IF saved
                            THEN [live |-> TRUE,
                                  val |-> JsonDumpsList(conversation_history)]
                            ELSE @,
                 !.at[p] = "idle",
                 !.num[p] = 0,
                 !.hist[p] = <<>>,
                 !.done = Append(@, n)]
    /\ UNCHANGED <<mode, maxReq, window, faultBudget, now, rate, kv, pc, cnt, rid,
                   log, lastOp, shadow, storeVars, lastQuery, llmVars,
                   pdf, tbl, det, lazy, changedAt>>

\* clear_conversation (app.py 838-845) and clear_user_conversation
\* (redis_cache.py 352-374): DEL of the tenant's key. The requests counted in
\* `done` are those since the last clear that took effect.
clear_conversation ==
    /\ conv.stored.live
    /\ \E f \in FaultChoice :
         LET cleared == Enabled /\ ~f IN
         /\ ~Enabled => ~f
         /\ faults' = IF f THEN faults + 1 ELSE faults
         /\ conv' = [conv EXCEPT
                 !.stored = IF cleared THEN NoConversation.stored ELSE @,
                 !.done = IF cleared THEN <<>> ELSE @,
                 !.overlap = IF cleared
                             THEN \E q \in Procs : conv.at[q] # "idle"
                             ELSE @]
    /\ UNCHANGED <<mode, maxReq, window, faultBudget, now, rate, kv, pc, cnt, rid,
                   log, lastOp, shadow, storeVars, lastQuery, llmVars,
                   pdf, tbl, det, lazy, changedAt>>

(***************************************************************************)
(* LazyLoader.get and LazyLoader.warmup, one attribute access per step     *)
(***************************************************************************)
\* __init__ (lines 24-31): no instance, the lock free, nothing initialised.
NewLoader ==
    [instance |-> None, initialized |-> FALSE, error |-> None, lock |-> 0,
     at |-> [p \in Procs |-> "idle"],
     via |-> [p \in Procs |-> "none"],
     calls |-> 0, gets |-> 0, returns |-> <<>>]

\* What init_func does when called: it returns an object or raises.
InitOutcomes == {"returns", "raises"}

\* A get call returns: its value joins the record of returned values.
Returned(p, path, value) ==
    Append(lazy.returns, [via |-> lazy.via[p], path |-> path, value |-> value])

LazyStep(next) ==
    /\ lazy' = next
    /\ UNCHANGED <<cacheVars, storeVars, lastQuery, llmVars, pdf, tbl, det, conv, changedAt>>

\* A thread enters get: called directly, or as the target of the thread
\* warmup starts (lines 75-82).
Get_Call(p, via) ==
    /\ lazy.at[p] = "idle"
    /\ lazy.gets < MaxCalls
    /\ LazyStep([lazy EXCEPT !.at[p] = "check", !.via[p] = via,
                             !.gets = @ + 1])

get == \E p \in Procs : Get_Call(p, "get")
warmup == \E p \in Procs : Get_Call(p, "warmup")

\* `if self._initialized:` (line 38).
Get_Check(p) ==
    /\ lazy.at[p] = "check"
    /\ LazyStep([lazy EXCEPT !.at[p] = IF lazy.initialized THEN "fast" ELSE "wait"])

\* `return self._instance` (line 39).
Get_Fast(p) ==
    /\ lazy.at[p] = "fast"
    /\ LazyStep([lazy EXCEPT !.at[p] = "idle", !.via[p] = "none",
                             !.returns = Returned(p, "fast", lazy.instance)])

\* `with self._lock:` (line 41).
Get_Lock(p) ==
    /\ lazy.at[p] = "wait"
    /\ lazy.lock = 0
    /\ LazyStep([lazy EXCEPT !.at[p] = "locked", !.lock = p])

\* The second `if self._initialized:` (line 43), read under the lock.
InitializedUnderLockSkipped(l) == FALSE
InitializedUnderLock(l) == l.initialized

\* Lines 43-44: initialised meanwhile, return the instance and release.
Get_Recheck(p) ==
    /\ lazy.at[p] = "locked"
    /\ IF InitializedUnderLock(lazy)
       THEN LazyStep([lazy EXCEPT !.at[p] = "idle", !.via[p] = "none", !.lock = 0,
                                  !.returns = Returned(p, "recheck", lazy.instance)])
       ELSE LazyStep([lazy EXCEPT !.at[p] = "init"])

\* Line 48 and, when init_func raises, line 53.
Get_Init(p) ==
    /\ lazy.at[p] = "init"
    /\ \E outcome \in InitOutcomes :
         IF outcome = "returns"
         THEN LazyStep([lazy EXCEPT !.calls = @ + 1,
                                    !.instance = <<"instance", lazy.calls + 1>>,
                                    !.at[p] = "mark"])
         ELSE LazyStep([lazy EXCEPT !.calls = @ + 1,
                                    !.error = <<"error", lazy.calls + 1>>,
                                    !.at[p] = "mark_failed"])

\* `self._initialized = True` (line 49, line 54).
Get_Mark(p) ==
    /\ lazy.at[p] \in {"mark", "mark_failed"}
    /\ LazyStep([lazy EXCEPT !.initialized = TRUE,
                             !.at[p] = IF lazy.at[p] = "mark" THEN "return"
                                       ELSE "return_none"])

\* `return self._instance` (line 51), `return None` (line 56); the lock is
\* released on the way out.
Get_Return(p) ==
    /\ lazy.at[p] \in {"return", "return_none"}
    /\ LazyStep([lazy EXCEPT !.at[p] = "idle", !.via[p] = "none", !.lock = 0,
                             !.returns = Returned(p, "init",
                                 IF lazy.at[p] = "return" THEN lazy.instance
                                 ELSE None)])

(***************************************************************************)
(* Initial states                                                          *)
(***************************************************************************)
InitCache(budgets, limits, windows) ==
    /\ mode \in {"upstash", "local", "disabled"}
    /\ maxReq \in limits
    /\ window \in windows
    /\ faultBudget \in budgets
    /\ faults = 0
    /\ now = 0
    /\ rate = [id \in Idents |-> NoRate]
    /\ kv = [k \in AllKeys |-> NoEntry]
    /\ pc = [p \in Procs |-> "idle"]
    /\ cnt = [p \in Procs |-> 0]
    /\ rid = [p \in Procs |-> "u1"]
    /\ log = <<>>
    /\ lastOp = NoOp
    /\ shadow = [k \in AllKeys |-> NotStored]

\* An empty collection; RAGSystem is built on ChromaVectorStore.
InitStore ==
    /\ coll = <<>>
    /\ storeKind = "chroma"
    /\ lastSearch = NoSearch
    /\ lastRetr = NoRetr

\* An empty collection in either store class.
InitStores ==
    /\ coll = <<>>
    /\ storeKind \in {"chroma", "simple"}
    /\ lastSearch = NoSearch
    /\ lastRetr = NoRetr

\* No provider configured, no call in progress.
InitLLM ==
    /\ providers = <<>>
    /\ llm = IdleLLM

\* Any set of configured providers, each with what its call will do.
InitProviders ==
    /\ \E s \in ProviderLists :
         \E o \in [1..Len(s) -> Outcomes] :
            providers = [k \in 1..Len(s) |->
                            [name |-> ProviderOrder[s[k]], outcome |-> o[k]]]
    /\ llm = IdleLLM

InitQuery == lastQuery = NoQuery

\* No upload in progress, no table extraction made.
InitDoc ==
    /\ pdf = NoDocument /\ tbl = NoExtraction /\ det = NoDetection
    /\ conv = NoConversation /\ lazy = NewLoader
    /\ changedAt = [u \in Users \cup {None} |-> -1]

(***************************************************************************)
(* The rate limiter called by one request at a time, no backend failures   *)
(***************************************************************************)
InitRate == InitCache({0}, 1..MaxN, 1..MaxW) /\ InitStore /\ InitLLM /\ InitQuery /\ InitDoc

NextRate ==
    \/ \E p \in Procs : (\A q \in Procs \ {p} : pc[q] = "idle") /\ RL_Get(p)
    \/ \E p \in Procs : RL_Ttl(p)
    \/ \E p \in Procs : RL_Incr(p)
    \/ \E p \in Procs : RL_Expire(p)
    \/ AllIdle /\ Tick

SpecRate == InitRate /\ [][NextRate]_vars

(***************************************************************************)
(* The rate limiter under concurrent requests and backend failures         *)
(***************************************************************************)
Init == InitCache(0..MaxFaults, 1..MaxN, 1..MaxW) /\ InitStore /\ InitLLM /\ InitQuery /\ InitDoc

Next ==
    \/ \E p \in Procs : RL_Get(p)
    \/ \E p \in Procs : RL_Ttl(p)
    \/ \E p \in Procs : RL_Incr(p)
    \/ \E p \in Procs : RL_Expire(p)
    \/ Tick

Spec == Init /\ [][Next]_vars

(***************************************************************************)
(* The query-result cache and the sessions                                 *)
(***************************************************************************)
InitKV == InitCache(0..MaxFaults, {1}, {1}) /\ InitStore /\ InitLLM /\ InitQuery /\ InitDoc

NextKV ==
    \/ cache_query_result
    \/ get_cached_query_result
    \/ create_session
    \/ get_session
    \/ delete_session
    \/ Tick

SpecKV == InitKV /\ [][NextKV]_vars

(***************************************************************************)
(* The provider cascade                                                    *)
(***************************************************************************)
InitCascade == InitCache({0}, {1}, {1}) /\ mode = "disabled" /\ InitStore
               /\ InitProviders /\ InitQuery /\ InitDoc

NextLLM ==
    \/ LLM_Call
    \/ LLM_Try
    \/ LLM_Exhausted
    \/ LLM_Return

SpecLLM == InitCascade /\ [][NextLLM]_vars

(***************************************************************************)
(* The vector stores and the retriever                                     *)
(***************************************************************************)
InitRetrieval == InitCache({0}, {1}, {1}) /\ mode = "disabled" /\ InitStores
                 /\ InitLLM /\ InitQuery /\ InitDoc

NextStore ==
    \/ AddDocuments
    \/ Search
    \/ Retrieve

SpecStore == InitRetrieval /\ [][NextStore]_vars

(***************************************************************************)
(* Requests against a cache that direct calls have filled                  *)
(***************************************************************************)
InitRAG == InitCache(0..MaxFaults, {1}, {1}) /\ InitStore /\ InitLLM /\ InitQuery /\ InitDoc

NextQuery ==
    \/ Query
    \/ cache_query_result
    \/ Len(coll) = 0 /\ AddDocuments

SpecQuery == InitRAG /\ [][NextQuery]_vars

(***************************************************************************)
(* Requests of several tenants against entries stored per tenant           *)
(***************************************************************************)
NextTenant ==
    \/ Query
    \/ CacheAsTenant

SpecTenant == InitRAG /\ [][NextTenant]_vars

(***************************************************************************)
(* Retrieval over documents of known distances                             *)
(***************************************************************************)
NextRank ==
    \/ AddMeasured
    \/ Retrieve

SpecRank == InitRetrieval /\ [][NextRank]_vars

(***************************************************************************)
(* The query quota and the usage statistics                                *)
(***************************************************************************)
NextLimits ==
    \/ check_query_limit
    \/ get_user_usage_stats
    \/ Tick

SpecLimits == InitRate /\ [][NextLimits]_vars

(***************************************************************************)
(* Uploads of several tenants and of the shared store into one collection  *)
(***************************************************************************)
NextIds == AddNamed

SpecIds == InitRAG /\ [][NextIds]_vars

(***************************************************************************)
(* Retrieval and generation over documents of known distances              *)
(***************************************************************************)
NextConfidence ==
    \/ AddMeasured
    \/ Retrieve
    \/ generate_response

SpecConfidence == InitRetrieval /\ [][NextConfidence]_vars

(***************************************************************************)
(* Uploads: page extraction in the worker pool                             *)
(***************************************************************************)
InitUpload == InitCache({0}, {1}, {1}) /\ mode = "disabled" /\ InitStore
              /\ InitLLM /\ InitQuery /\ InitDoc

NextPDF ==
    \/ ExtractContent_Open
    \/ Worker_Start
    \/ Worker_Finish
    \/ ExtractContent_Return
    \/ ExtractContent_Done

SpecPDF == InitUpload /\ [][NextPDF]_vars

(***************************************************************************)
(* Table extraction of single pages                                        *)
(***************************************************************************)
NextTables ==
    \/ extract_tables
    \/ ExtractTables_Done

SpecTables == InitUpload /\ [][NextTables]_vars

(***************************************************************************)
(* Classification of typed queries                                         *)
(***************************************************************************)
NextDetect ==
    \/ detect_query_type
    \/ DetectQueryType_Done

SpecDetect == InitUpload /\ [][NextDetect]_vars

(***************************************************************************)
(* /ask and /clear requests of one tenant, overlapping, backend failures   *)
(***************************************************************************)
NextConversation ==
    \/ \E p \in Procs : Ask_Get(p)
    \/ \E p \in Procs : Ask_Save(p)
    \/ clear_conversation

SpecConversation == Init /\ [][NextConversation]_vars

(***************************************************************************)
(* Threads calling LazyLoader.get and LazyLoader.warmup concurrently       *)
(***************************************************************************)
NextLazy ==
    \/ get
    \/ warmup
    \/ \E p \in Procs : Get_Check(p)
    \/ \E p \in Procs : Get_Fast(p)
    \/ \E p \in Procs : Get_Lock(p)
    \/ \E p \in Procs : Get_Recheck(p)
    \/ \E p \in Procs : Get_Init(p)
    \/ \E p \in Procs : Get_Mark(p)
    \/ \E p \in Procs : Get_Return(p)

SpecLazy == InitUpload /\ [][NextLazy]_vars

(***************************************************************************)
(* Cached answers of a tenant whose documents change                       *)
(***************************************************************************)
NextFresh ==
    \/ add_document
    \/ delete_document
    \/ CacheAsTenant
    \/ Query
    \/ Tick

\* A backend that answers every command.
InitFresh == InitCache({0}, {1}, {1}) /\ InitStore /\ InitLLM /\ InitQuery /\ InitDoc

SpecFresh == InitFresh /\ [][NextFresh]_vars

(***************************************************************************)
(* Claims about the cache and rate-limit layer                             *)
(***************************************************************************)
\* Call i of the log starts a window: no earlier call was allowed during the
\* `window` seconds before it.
C1_Fresh(i) ==
    \A j \in 1..(i - 1) : log[j].allowed => log[i].t - log[j].t >= window

\* C1: with a cache backend enabled and calls made one after the other, a
\* call that starts a window is allowed; and of maxReq + 1 calls made within
\* `window` seconds from such a call, the first maxReq are allowed and the
\* last one is rejected. After `window` seconds without an allowed call the
\* next call starts a window, so it is allowed again.
C1_RateLimiterBoundary ==
    Enabled =>
        \A i \in 1..Len(log) :
            C1_Fresh(i) =>
                /\ log[i].allowed
                /\ (/\ i + maxReq <= Len(log)
                    /\ log[i + maxReq].t - log[i].t < window)
                   => /\ \A k \in 0..(maxReq - 1) : log[i + k].allowed
                      /\ ~log[i + maxReq].allowed

\* A run of maxReq allowed calls and a rejected one within the window, and,
\* once the window has elapsed, an allowed call again.
C1_Witness ==
    /\ Enabled
    /\ maxReq >= 2
    /\ Len(log) = maxReq + 2
    /\ \A k \in 1..maxReq : log[k].allowed
    /\ ~log[maxReq + 1].allowed
    /\ log[maxReq + 1].t - log[1].t < window
    /\ C1_Fresh(maxReq + 2)
    /\ log[maxReq + 2].allowed

\* C4: a get that the backend answers returns exactly what the last successful
\* store under the same key put there, provided fewer than TTL seconds have
\* passed since and the key was not deleted; otherwise it returns a miss.
C4_CacheRoundTrip ==
    (lastOp.op \in {"get_query", "get_session"} /\ ~lastOp.faulted) =>
        LET sh == shadow[lastOp.key]
            live == sh.set /\ now < sh.exp
        IN  /\ lastOp.hit = live
            /\ lastOp.hit => lastOp.val = sh.val

\* A query result read back unchanged after a second has passed, in the last
\* second of its TTL.
C4_Witness ==
    /\ lastOp.op = "get_query"
    /\ lastOp.hit
    /\ lastOp.val = Response("a2", 2, 96, <<"table", "text">>, "table")
    /\ now >= 1
    /\ shadow[lastOp.key].exp = now + 1

\* The allowed calls of the log that fall into the `window` seconds that
\* start with call i.
C2_AllowedInWindow(i) ==
    {j \in 1..Len(log) :
        log[j].allowed /\ log[i].t <= log[j].t /\ log[j].t < log[i].t + window}

\* C2: whatever the interleaving of concurrent check_rate_limit calls on one
\* identifier, with an Upstash or a local backend that answers every command,
\* no more than maxReq calls are allowed within one window.
C2_AtomicCheckThenIncrement ==
    (Enabled /\ faults = 0) =>
        \A i \in 1..Len(log) : Cardinality(C2_AllowedInWindow(i)) <= maxReq

\* The cache calls fail open: a call during which the backend raised reports
\* a miss or a failed store, and a rate-limit check allows the request.
C3_CacheCallsFailOpen ==
    /\ lastOp.faulted => (~lastOp.ok /\ ~lastOp.hit)
    /\ \A i \in 1..Len(log) : log[i].failopen => log[i].allowed

\* A request during which the cache raised still went through the retriever
\* and answered from retrieval and generation, not with the error answer.
C3_QueryStillAnswers ==
    (lastQuery.made /\ lastQuery.cacheFault) =>
        /\ lastQuery.retrCalls = 1
        /\ lastQuery.resp.answer # ErrorAnswer

\* C3: when the cache backend raises, get_cached_query_result returns a
\* miss, cache_query_result returns False, check_rate_limit allows, and
\* RAGSystem.query still retrieves, generates and returns that answer.
C3_FailOpen == C3_CacheCallsFailOpen /\ C3_QueryStillAnswers

\* C5: a request that finds a cached entry under (question, document_name,
\* tenant suffix) returns that entry with cached = true, and calls neither
\* the retriever, nor the store's search, nor generation, nor the cache's
\* store operation. The entry is compared with what the cache holds as long
\* as the request's lookup is the last cache call made.
C5_CacheHitShortCircuits ==
    (lastQuery.made /\ lastQuery.hit /\ lastOp.op = "get_query") =>
        LET key == CacheKey("query", lastQuery.question, lastQuery.doc,
                            KeySuffix(lastQuery.user))
        IN  /\ kv[key].live
            /\ lastQuery.resp = [JsonLoads(kv[key].val) EXCEPT !.cached = TRUE]
            /\ lastQuery.resp.cached
            /\ lastQuery.hasCached
            /\ lastQuery.retrCalls = 0
            /\ lastQuery.searches = 0
            /\ lastQuery.genCalls = 0
            /\ lastQuery.cacheWrites = 0

\* A request served from the cache while the store holds chunks.
C5_Witness ==
    /\ lastQuery.made
    /\ lastQuery.hit
    /\ lastOp.op = "get_query"
    /\ lastQuery.resp.answer = "a2"
    /\ lastQuery.resp.cached
    /\ Len(coll) > 0

\* The key under which a request of the last query's tenant is cached.
C11_OwnKey ==
    CacheKey("query", lastQuery.question, lastQuery.doc, KeySuffix(lastQuery.user))

\* C11: a request is served from the cache only with an entry stored for its
\* own tenant, question and document filter: the answer it gets is the one
\* computed for that tenant, and whether it hits depends on nothing but its
\* own tenant's entry, whatever other tenants have cached.
C11_CacheTenantIsolation ==
    /\ (lastQuery.made /\ lastQuery.hit) =>
          /\ lastQuery.user \in Users
          /\ lastQuery.resp = ServeCached(TenantResponse(lastQuery.user))
    /\ (lastQuery.made /\ lastOp.op = "get_query" /\ Enabled
          /\ ~lastQuery.cacheFault) =>
          lastQuery.hit = shadow[C11_OwnKey].set

\* Tenant B is served its own entry while tenant A's entry for the same
\* question and document filter is in the cache.
C11_Witness ==
    /\ lastQuery.made
    /\ lastQuery.hit
    /\ lastQuery.user = "B"
    /\ lastQuery.resp.answer = "answer for B"
    /\ kv[CacheKey("query", lastQuery.question, lastQuery.doc, KeySuffix("A"))].live
    /\ JsonLoads(kv[CacheKey("query", lastQuery.question, lastQuery.doc,
                             KeySuffix("A"))].val).answer = "answer for A"

(***************************************************************************)
(* Claims about the provider cascade                                       *)
(***************************************************************************)
\* The provider's call came back with an answer text.
Succeeds(k) == providers[k].outcome \in {"ok", "nousage"}
FirstOk(k) == Succeeds(k) /\ \A j \in 1..(k - 1) : ~Succeeds(j)

\* C6: when some configured provider's call succeeds, query_text returns
\* success with the name and the answer of the first such provider in the
\* configured order; every provider before it was called exactly once (and
\* failed) and no provider after it was called.
C6_FirstSuccessfulProvider ==
    llm.pc = "done" =>
        \A k \in 1..Len(providers) :
            FirstOk(k) =>
                /\ llm.success
                /\ llm.provider = providers[k].name
                /\ llm.answer = "answer of " \o providers[k].name
                /\ \A j \in 1..k : llm.calls[j] = 1
                /\ \A j \in (k + 1)..Len(providers) : llm.calls[j] = 0

\* C7: query_text never raises, and it returns success = false, with one of
\* its two fallback messages, exactly when every configured provider's call
\* failed (also with no provider at all, and whatever the last error was).
C7_SoftFailure ==
    /\ ~llm.raised
    /\ llm.pc = "done" =>
         /\ llm.success = (\E k \in 1..Len(providers) : Succeeds(k))
         /\ ~llm.success =>
              /\ llm.answer \in {"apology", "unavailable"}
              /\ llm.provider = "None"
              /\ \A j \in 1..Len(providers) : llm.calls[j] = 1

(***************************************************************************)
(* Claims about retrieval and the request path                             *)
(***************************************************************************)
\* C8: retrieve on an empty store returns results = [] and total_found = 0
\* without raising, whatever the query type.
C8_EmptyStoreRetrieval ==
    (lastRetr.made /\ Len(coll) = 0) =>
        /\ ~lastRetr.raised
        /\ lastRetr.results = <<>>
        /\ lastRetr.total_found = 0

\* C9: a request that misses the cache while the store holds no chunk for
\* it gets the 'no relevant information' answer with sources_used = 0 and
\* confidence = 0.0, and generation is not called.
C9_NoResultsAnswer ==
    (/\ lastQuery.made
     /\ ~lastQuery.hit
     /\ Matching(coll, lastQuery.user, lastQuery.doc) = <<>>) =>
        /\ lastQuery.resp.answer = NoInfoAnswer
        /\ lastQuery.resp.sources_used = 0
        /\ lastQuery.resp.confidence = 0
        /\ lastQuery.genCalls = 0

\* C10: ChromaVectorStore.search with a user_id returns only chunks stored
\* under that tenant, with a document filter as well only chunks of that
\* tenant and that document, and an empty result when no stored chunk
\* matches, whatever other tenants have stored.
C10_TenantIsolation ==
    (lastSearch.made /\ storeKind = "chroma" /\ lastSearch.user # None) =>
        /\ \A k \in 1..Len(lastSearch.rows) :
             /\ lastSearch.rows[k].user = lastSearch.user
             /\ lastSearch.doc # None => lastSearch.rows[k].doc = lastSearch.doc
             /\ \E c \in 1..Len(coll) : coll[c] = lastSearch.rows[k]
        /\ (\A c \in 1..Len(coll) :
               \/ coll[c].user # lastSearch.user
               \/ lastSearch.doc # None /\ coll[c].doc # lastSearch.doc)
           => lastSearch.rows = <<>>

\* A search of tenant A in document d1 that returns a chunk, while the store
\* also holds a chunk of tenant B and a chunk of A's other document.
C10_Witness ==
    /\ lastSearch.made
    /\ storeKind = "chroma"
    /\ lastSearch.user = "A"
    /\ lastSearch.doc = "d1"
    /\ lastSearch.rows # <<>>
    /\ \E c \in 1..Len(coll) : coll[c].user = "B" /\ coll[c].doc = "d1"
    /\ \E c \in 1..Len(coll) : coll[c].user = "A" /\ coll[c].doc = "d2"
\* C12: adding the chunks of a document again under the same document name
\* and tenant overwrites by composite id and adds no entry: the store holds
\* every composite id at most once, so the number of entries after the
\* second call is the number after the first.
C12_IdempotentReingestion ==
    \A a, b \in 1..Len(coll) : a # b => coll[a].id # coll[b].id

\* C13: whatever the order in which the page workers of extract_content
\* complete, the returned chunk list is grouped by ascending page number, and
\* it is assembled only once every page's worker has finished: nothing is
\* assembled while the call is running, and at the return every page has
\* been collected.
C13_PageOrderAfterJoin ==
    /\ pdf.pc = "running" => pdf.all_chunks = <<>>
    /\ pdf.pc = "returned" =>
         /\ Collected = 0..(Len(pdf.pages) - 1)
         /\ \A i, j \in 1..Len(pdf.all_chunks) :
               i < j => pdf.all_chunks[i].page_number <= pdf.all_chunks[j].page_number

\* A call returned whose workers completed a later page, with chunks, before
\* an earlier page, with chunks.
C13_Witness ==
    /\ pdf.pc = "returned"
    /\ \E a, b \in 1..Len(pdf.results) :
         /\ a < b
         /\ pdf.results[a].page_num > pdf.results[b].page_num
         /\ pdf.results[a].chunks # <<>>
         /\ pdf.results[b].chunks # <<>>

ChunksOfPage(page_number) ==
    SelectSeq(pdf.all_chunks, LAMBDA c : c.page_number = page_number)

\* C14: once the processing of some pages has raised, extract_content does
\* not raise and is never stuck; when it returns, every page has been
\* processed (no sibling was cancelled), each failed page contributes no
\* chunk and every other page contributes exactly its own chunks.
C14_PageFailuresContained ==
    (\E k \in 1..Len(pdf.results) : pdf.pages[pdf.results[k].page_num + 1] = "bad") =>
        /\ pdf.pc # "raised"
        /\ pdf.pc = "running" =>
              ENABLED (Worker_Start \/ Worker_Finish \/ ExtractContent_Return)
        /\ pdf.pc = "returned" =>
              /\ Collected = 0..(Len(pdf.pages) - 1)
              /\ \A p \in 1..Len(pdf.pages) :
                    ChunksOfPage(p) = IF pdf.pages[p] = "bad" THEN <<>>
                                      ELSE ExtractTextChunks(pdf.pages[p], p - 1)

\* A call returned in which a page failed and a later page, finished after
\* the failure, contributed its chunks.
C14_Witness ==
    /\ pdf.pc = "returned"
    /\ \E a, b \in 1..Len(pdf.results) :
         /\ a < b
         /\ pdf.pages[pdf.results[a].page_num + 1] = "bad"
         /\ pdf.pages[pdf.results[b].page_num + 1] # "bad"
         /\ ChunksOfPage(pdf.results[b].page_num + 1) # <<>>

\* The tables a method's list holds above the floor, as far as its loop got.
Yield(accs, done, floor) == {k \in 1..Len(accs) : k <= done /\ accs[k] > floor}
LatticeYield == IF tbl.camelot THEN Yield(tbl.lattice, tbl.latticeDone, LatticeFloor) ELSE {}
StreamYield == IF tbl.camelot THEN Yield(tbl.stream, tbl.streamDone, StreamFloor) ELSE {}
Methods(tables) == {tables[k].method : k \in 1..Len(tables)}
InvokedMethods == {tbl.invoked[k] : k \in 1..Len(tbl.invoked)}

\* C15: in extract_tables, when the lattice method returns at least one
\* table above its floor, the result is exactly these tables and no other
\* method is invoked; the stream method is invoked only if the lattice method
\* yielded nothing, and pdfplumber only if every method before it yielded
\* nothing.
C15_CascadeStopsAtFirstYield ==
    tbl.made =>
        /\ LatticeYield # {} =>
              /\ tbl.invoked = <<"camelot-lattice">>
              /\ Methods(tbl.tables) = {"camelot-lattice"}
              /\ {tbl.tables[k].table_index + 1 : k \in 1..Len(tbl.tables)} = LatticeYield
              /\ Len(tbl.tables) = Cardinality(LatticeYield)
        /\ "camelot-stream" \in InvokedMethods => LatticeYield = {}
        /\ "tabula" \in InvokedMethods => LatticeYield = {} /\ StreamYield = {}
        /\ "pdfplumber" \in InvokedMethods =>
              /\ LatticeYield = {}
              /\ StreamYield = {}
              /\ ~tbl.tabula \/ tbl.tabulaFound = 0
              /\ Methods(tbl.tables) \subseteq {"pdfplumber"}

\* A page where the lattice method yields a table and every later method
\* would have yielded one too.
C15_Witness ==
    /\ tbl.made
    /\ LatticeYield # {}
    /\ StreamYield # {}
    /\ tbl.tabula /\ tbl.tabulaFound > 0
    /\ tbl.plumberFound > 0
    /\ tbl.tables # <<>>

\* C16: for every page on which the table cascade finds at least one table,
\* the chunk list extract_content returns holds at least one chunk of kind
\* 'table' with that page number.
C16_TableChunksReturned ==
    pdf.pc = "returned" =>
        \A p \in 1..Len(pdf.pages) :
            PageTables(pdf.pages[p]) # <<>> =>
                \E i \in 1..Len(pdf.all_chunks) :
                    /\ pdf.all_chunks[i].chunk_type = "table"
                    /\ pdf.all_chunks[i].page_number = p

\* Where a fetched row stands in the results of the last retrieve call;
\* 0 when it was left out.
RankOf(row) ==
    IF \E i \in 1..Len(lastRetr.results) : lastRetr.results[i].row = row
    THEN CHOOSE i \in 1..Len(lastRetr.results) : lastRetr.results[i].row = row
    ELSE 0

\* C17: for a query classified 'table', among the chunks the store search
\* returned, a table chunk is never ranked below a text chunk whose raw
\* distance is strictly larger: where the text chunk is in the results the
\* table chunk is too, at an earlier place.
C17_TableNotBelowWorseText ==
    (lastRetr.made /\ ~lastRetr.raised /\ lastRetr.query_type = "table") =>
        \A a, b \in 1..Len(lastSearch.rows) :
            LET t == lastSearch.rows[a]
                x == lastSearch.rows[b]
            IN  (t.kind = "table" /\ x.kind = "text" /\ x.dist > t.dist
                 /\ RankOf(x) # 0)
                    => (RankOf(t) # 0 /\ RankOf(t) < RankOf(x))

\* A table query ranked a table chunk whose distance is beyond 1.25, where
\* its score is negative and the factor 1.2 lowers it, and a text chunk
\* farther away by the smallest step.
C17_Witness ==
    /\ lastRetr.made /\ ~lastRetr.raised /\ lastRetr.query_type = "table"
    /\ \E a, b \in 1..Len(lastSearch.rows) :
         /\ lastSearch.rows[a].kind = "table"
         /\ lastSearch.rows[b].kind = "text"
         /\ lastSearch.rows[a].dist > 125
         /\ lastSearch.rows[b].dist = lastSearch.rows[a].dist + 1
         /\ RankOf(lastSearch.rows[a]) = 1
         /\ RankOf(lastSearch.rows[b]) = 2

\* C20: every retrieve call issues one store search, with
\* k = 2 * TOP_K_RESULTS, and returns, rather than raises, at most
\* TOP_K_RESULTS results in non-increasing order of score; no fetched chunk
\* left out of the results has a score above that of a returned one.
C20_TopKByScore ==
    lastRetr.made =>
        /\ ~lastRetr.raised
        /\ lastSearch.made
        /\ lastSearch.n = 2 * TOP_K_RESULTS
        /\ Len(lastSearch.rows) <= 2 * TOP_K_RESULTS
        /\ Len(lastRetr.results) <= TOP_K_RESULTS
        /\ \A i, j \in 1..Len(lastRetr.results) :
              i < j => lastRetr.results[i].score >= lastRetr.results[j].score
        /\ \A i \in 1..Len(lastRetr.results) :
              /\ RankOf(lastRetr.results[i].row) # 0
              /\ lastRetr.results[i].score =
                    Score(lastRetr.query_type, lastRetr.results[i].row)
              /\ \E k \in 1..Len(lastSearch.rows) :
                    lastSearch.rows[k] = lastRetr.results[i].row
        /\ \A k \in 1..Len(lastSearch.rows) :
              RankOf(lastSearch.rows[k]) = 0 =>
                  /\ Len(lastRetr.results) = TOP_K_RESULTS
                  /\ \A i \in 1..Len(lastRetr.results) :
                        Score(lastRetr.query_type, lastSearch.rows[k])
                            <= lastRetr.results[i].score

\* The classes in the order _detect_query_type tests them.
ClassOrder == <<"table", "image", "factual", "conceptual">>

\* C19: _detect_query_type answers the earliest class, in the order table,
\* image, factual, conceptual, of which the lower-cased query contains a
\* keyword, and 'general' when it contains no keyword of any class.
C19_FirstMatchingClass ==
    det.made =>
        LET has == KeywordsIn(det.query) IN
        /\ has = {} => det.query_type = "general"
        /\ \A k \in 1..Len(ClassOrder) :
              (ClassOrder[k] \in has /\ \A e \in 1..(k - 1) : ClassOrder[e] \notin has)
                  => det.query_type = ClassOrder[k]

\* A query holding keywords of the factual and of the conceptual class and
\* of no class before them was classified 'factual'.
C19_Witness ==
    /\ det.made
    /\ KeywordsIn(det.query) = {"factual", "conceptual"}
    /\ det.query_type = "factual"

\* C18: the backend used when no network cache is configured returns to the
\* caller what the network backend returns for the same calls at the same
\* times. The network backend answers True to every delete it carries out,
\* so a delete that no backend failure hits returns True whichever backend
\* was selected at startup.
C18_BackendsAgree ==
    (lastOp.op = "del_session" /\ ~lastOp.faulted) => lastOp.ok

\* The log entries of calls that were counted: allowed by the counter, not by
\* the disabled shortcut or the fail-open branch.
Counted == {j \in 1..Len(log) : log[j].allowed /\ ~log[j].failopen /\ Enabled}

\* C23: the expiry of a rate counter is set when the counter is created and
\* later allowed requests do not extend it: with the calls one after another
\* and no backend failure, a counter that counts n requests ends at most
\* `window` seconds after the n-th last counted request, the one that
\* created it.
C23_ExpiryFixedAtCreation ==
    \A id \in Idents :
        (AllIdle /\ rate[id].n >= 1 /\ Cardinality(Counted) >= rate[id].n) =>
            LET first == CHOOSE j \in Counted :
                            Cardinality({k \in Counted : k >= j}) = rate[id].n
            IN  /\ rate[id].ttl # NoTTL
                /\ now + rate[id].ttl <= log[first].t + window

\* C29: in every result of check_rate_limit, whatever the interleaving of
\* the calls and the backend mode, remaining is between 0 and max_requests,
\* and a rejection has remaining = 0.
C29_RemainingInRange ==
    \A j \in 1..Len(log) :
        /\ 0 <= log[j].remaining
        /\ log[j].remaining <= maxReq
        /\ ~log[j].allowed => log[j].remaining = 0

\* C30: an identifier is never blocked forever, also when the backend fails
\* between the increment and the expire command of an allowed call: a
\* counter at the limit, which makes every call a rejection, has an expiry,
\* so that the end of the window removes it and a later call is allowed.
C30_BlockedCounterExpires ==
    \A id \in Idents :
        (AllIdle /\ LimitReached(RedisGetCount(rate, id), maxReq)) =>
            rate[id].ttl # NoTTL

\* C25: get_user_usage_stats is read-only with respect to the query quota:
\* a call of it leaves the tenant's rate counter as it was, and with it the
\* outcome of a later check_query_limit.
C25_UsageStatsReadOnly == [][get_user_usage_stats => rate' = rate]_vars

\* The stored chunks of a document of a tenant (None: the shared store).
ChunksOf(c, document_name, user_id) ==
    SelectSeq(c, LAMBDA row : row.doc = document_name /\ row.user = user_id)

\* C24: distinct composite keys (tenant, document name, index), an absent
\* tenant included, get distinct chunk ids, so adding a document never
\* collides with a chunk of another tenant or of the shared store nor
\* replaces one: an add of a document of which the tenant has no chunk yet
\* stores every one of its chunks and leaves every stored chunk in place.
C24_CompositeIdsDistinct ==
    [][\A chunks \in ChunkLists, d \in DocNames, u \in Users \cup {None} :
          (AddDocumentsAs(chunks, d, u) /\ ChunksOf(coll, d, u) = <<>>) =>
              /\ Len(ChunksOf(coll', d, u)) = Len(chunks)
              /\ SubSeq(coll', 1, Len(coll)) = coll
              /\ \A a, b \in 1..Len(coll') : a # b => coll'[a].id # coll'[b].id]_vars

\* C26: query stores in the query cache only answers of a successful
\* generation, never the apology of a failed one, and so a later identical
\* query, which finds nothing cached, goes on to retrieval and generation
\* again.
C26_OnlyGeneratedAnswersCached ==
    lastQuery.made =>
        /\ lastQuery.cacheWrites > 0 => lastQuery.resp.answer = "generated"
        /\ ~lastQuery.hit => lastQuery.retrCalls = 1

Buffer == IF conv.stored.live THEN JsonLoadsList(conv.stored.val) ELSE <<>>

\* A list of complete exchanges: every question directly followed by the
\* answer given to that same request.
CompletePairs(s) ==
    /\ Len(s) % 2 = 0
    /\ \A i \in 1..(Len(s) \div 2) :
          \E n \in 1..MaxCalls :
             s[2 * i - 1] = QuestionOf(n) /\ s[2 * i] = AnswerOf(n)

\* The exchanges of the requests in `done`, in that order.
ExchangesOf(done) ==
    [i \in 1..(2 * Len(done)) |->
        IF i % 2 = 1 THEN QuestionOf(done[(i + 1) \div 2])
        ELSE AnswerOf(done[i \div 2])]

RequestsIdle == \A p \in Procs : conv.at[p] = "idle"

\* C21: whatever the interleaving of one tenant's /ask requests, the stored
\* conversation is a list of complete (question, answer) pairs, each question
\* directly followed by its own answer; and when the requests never overlap,
\* the n requests answered since the last clear leave exactly their 2n
\* entries, in request order.
C21_ConversationPairs ==
    /\ CompletePairs(Buffer)
    /\ (~conv.overlap /\ RequestsIdle) => Buffer = ExchangesOf(conv.done)

\* The get calls that found the loader initialised, at either check.
ObservedInitialised == {i \in 1..Len(lazy.returns) :
                           lazy.returns[i].path \in {"fast", "recheck"}}

\* C28: however get and warmup calls interleave, init_func is called at most
\* once; every get that finds the loader initialised returns the one instance
\* init_func made; and once initialisation has failed every get returns None
\* and init_func is not called again.
C28_InitialisedOnce ==
    /\ lazy.calls <= 1
    /\ \A i \in ObservedInitialised : lazy.returns[i].value = lazy.instance
    /\ lazy.error # None =>
          /\ lazy.instance = None
          /\ \A i \in 1..Len(lazy.returns) : lazy.returns[i].value = None

\* Two threads raced for the first initialisation: one made the instance, the
\* other waited for the lock and found the loader initialised at the second
\* check; a later call took the fast path; all got the same object.
C28_Witness ==
    /\ lazy.calls = 1
    /\ lazy.instance # None
    /\ \E i, j, k \in 1..Len(lazy.returns) :
          /\ lazy.returns[i].path = "init"
          /\ lazy.returns[j].path = "recheck"
          /\ lazy.returns[k].path = "fast"
          /\ lazy.returns[j].via = "warmup"
          /\ lazy.returns[j].value = lazy.returns[i].value
          /\ lazy.returns[k].value = lazy.returns[i].value


\* The second at which the entry now stored under a key was written.
WrittenAt(key) == shadow[key].exp - QUERY_CACHE_TTL

=============================================================================
